---------------------------- MODULE Spec2Model ----------------------------
(***************************************************************************)
(* WebCiv (kobalicek/webciv): the incremental tile-render cache of the     *)
(* canvas renderer (engine/webciv-render.js), the game core that feeds it  *)
(* (webciv-core: Observable, GameUtils, GamePlayer, GameMap, Game) and the *)
(* frame scheduling of the UI (engine/webciv-ui.js).                       *)
(*                                                                         *)
(* Three specifications share the variables:                               *)
(*   Spec      the game / renderer / ui life cycle on small maps           *)
(*   SpecGrid  the dirty grid alone (invalidate* and render) on more maps  *)
(*   SpecLUT   lookups in the two precomputed transition tables            *)
(***************************************************************************)
EXTENDS Integers, Sequences, FiniteSets, TLC

(***************************************************************************)
(* Integer helpers with JavaScript's semantics.                            *)
(***************************************************************************)

\* JavaScript's `%`: the remainder takes the sign of the dividend.
JsRem(x, y) ==
  IF x >= 0 THEN x % y ELSE 0 - ((0 - x) % y)

\* JavaScript's `x >> n` on a 32-bit integer: an arithmetic shift, the floor
\* of x / 2^n, also for a negative x.
Shr(x, n) ==
  x \div (2 ^ n)

RECURSIVE BitAnd(_, _)
\* JavaScript's `a & b` for non-negative a and b.
BitAnd(a, b) ==
  IF a = 0 \/ b = 0 THEN 0
  ELSE (a % 2) * (b % 2) + 2 * BitAnd(a \div 2, b \div 2)

RECURSIVE BitOr(_, _)
\* JavaScript's `a | b` for non-negative a and b.
BitOr(a, b) ==
  IF a = 0 THEN b
  ELSE IF b = 0 THEN a
  ELSE (IF (a % 2) + (b % 2) > 0 THEN 1 ELSE 0) + 2 * BitOr(a \div 2, b \div 2)

Min(a, b) ==
  IF a < b THEN a ELSE b

\* null where a bit array is expected ($tilesDirty, $blocksDirty, a
\* player's uncovered): a record of the same shape with no words at all.
NullBits ==
  [len |-> 0 - 1, bits |-> {}]

\* A hole of an array of asset ids (undefined).
NoAsset ==
  0 - 1

(***************************************************************************)
(* webciv-core: EdgeFlags, TerrainType, TerrainModifier.                   *)
(***************************************************************************)

EdgeTop ==
  1
EdgeRight ==
  2
EdgeBottom ==
  4
EdgeLeft ==
  8
EdgeTopRight ==
  16
EdgeBottomRight ==
  32
EdgeBottomLeft ==
  64
EdgeTopLeft ==
  128
EdgeSides ==
  15
EdgeCorners ==
  240
EdgeNone ==
  0

(***************************************************************************)
(* GameUtils.repeat(x, y): x wrapped into [0, y).  The two tests of the    *)
(* source assign to x as they go: a value one period off is fixed by the   *)
(* addition or subtraction alone, anything further by the remainder.       *)
(***************************************************************************)

\* A plausible slip: the remainder alone, which JavaScript keeps negative.
repeat_rem(x, y) ==
  JsRem(x, y)

repeat(x, y) ==
  LET wrap(v) == LET r == JsRem(v, y) IN IF r < 0 THEN r + y ELSE r
  IN  IF x < 0
        THEN (IF x + y < 0 THEN wrap(x + y) ELSE x + y)
        ELSE IF x >= y
          THEN (IF x - y >= y THEN wrap(x - y) ELSE x - y)
          ELSE x

(***************************************************************************)
(* makeTransitionData(sides): the canonical list PRE (comb) and the        *)
(* 256-entry table LUT.  The loops run side = 0..15 and, inside,           *)
(* corner = 16, 32, .., 240.                                               *)
(***************************************************************************)

\* The 16 "effective corner" masks of TerrainTransitions, by side bits.
TerrainSides ==
  << EdgeCorners,
     EdgeBottomLeft + EdgeBottomRight,
     EdgeTopLeft + EdgeBottomLeft,
     EdgeBottomLeft,
     EdgeTopLeft + EdgeTopRight,
     EdgeNone,
     EdgeTopLeft,
     EdgeNone,
     EdgeTopRight + EdgeBottomRight,
     EdgeBottomRight,
     EdgeNone,
     EdgeNone,
     EdgeTopRight,
     EdgeNone,
     EdgeNone,
     EdgeNone >>

\* The 16 "effective corner" masks of TerritoryTransitions, by side bits.
TerritorySides ==
  << EdgeNone,
     EdgeNone,
     EdgeNone,
     EdgeTopRight,
     EdgeNone,
     EdgeNone,
     EdgeBottomRight,
     EdgeTopRight + EdgeBottomRight,
     EdgeNone,
     EdgeTopLeft,
     EdgeNone,
     EdgeTopLeft + EdgeTopRight,
     EdgeBottomLeft,
     EdgeTopLeft + EdgeBottomLeft,
     EdgeBottomLeft + EdgeBottomRight,
     EdgeCorners >>

\* The state before the loops: no combination, every LUT entry -1.
transitionInit ==
  [comb |-> << >>, lut |-> [i \in 0..255 |-> 0 - 1]]

RECURSIVE cornerLoop_nodedup(_, _, _, _)
\* A plausible slip: the "already in PRE" test reads the entry of the raw
\* mask instead of the entry of its canonical mask, so a raw mask never
\* takes over the slot of its canonical mask.
cornerLoop_nodedup(st, side, corner, effective) ==
  LET lutIndex == BitOr(side, corner)
      altIndex == BitOr(side, BitAnd(corner, effective))
      preIndex == Len(st.comb)
  IN  IF corner >= 256 THEN st
      ELSE IF st.lut[lutIndex] # 0 - 1
        THEN cornerLoop_nodedup(st, side, corner + 16, effective)
        ELSE cornerLoop_nodedup(
               [comb |-> Append(st.comb, altIndex),
                lut  |-> [st.lut EXCEPT ![altIndex] = preIndex, ![lutIndex] = preIndex]],
               side, corner + 16, effective)

RECURSIVE cornerLoop(_, _, _, _)
\* for (corner = 16; corner < 256; corner += 16), from corner on: the raw
\* mask side | corner gets the slot of its canonical mask, which is
\* appended to PRE when it has none yet.
cornerLoop(st, side, corner, effective) ==
  LET lutIndex == BitOr(side, corner)
      altIndex == BitOr(side, BitAnd(corner, effective))
      preIndex == Len(st.comb)
  IN  IF corner >= 256 THEN st
      ELSE IF st.lut[altIndex] # 0 - 1
        THEN cornerLoop([st EXCEPT !.lut[lutIndex] = st.lut[altIndex]],
                        side, corner + 16, effective)
        ELSE cornerLoop(
               [comb |-> Append(st.comb, altIndex),
                lut  |-> [st.lut EXCEPT ![altIndex] = preIndex, ![lutIndex] = preIndex]],
               side, corner + 16, effective)

RECURSIVE transitionLoop(_, _, _)
\* for (side = 0; side < 16; side++), from side on; sides is 1-indexed here.
transitionLoop(st, sides, side) ==
  IF side >= Len(sides) THEN st
  ELSE transitionLoop(cornerLoop(st, side, 16, sides[side + 1]), sides, side + 1)

makeTransitionData(sides) ==
  LET st == transitionLoop(transitionInit, sides, 0)
  IN  [PRE |-> st.comb, LUT |-> st.lut]

TerrainTransitions ==
  makeTransitionData(TerrainSides)

TerritoryTransitions ==
  makeTransitionData(TerritorySides)

\* The table of a blending style.
TransitionsOf(style) ==
  IF style = "terrain" THEN TerrainTransitions ELSE TerritoryTransitions

\* The side table of a blending style.
SidesOf(style) ==
  IF style = "terrain" THEN TerrainSides ELSE TerritorySides


(***************************************************************************)
(* The state.  Each variable is one object of the program, as a record of  *)
(* the fields the model follows.                                           *)
(*                                                                         *)
(*   game      Game and its GameMap: w, h, tiles (one GameTile per map     *)
(*             tile, index y * w + x), players, units, cities, the         *)
(*             Observable's listeners per event, renderer / ui attached    *)
(*   renderer  Renderer: game (attached), worldX/Y/W/H, sceneW/H,          *)
(*             playerId, gridW/H, tiles ($tiles), tilesDirty, blocksDirty  *)
(*             (Int32Array or null), pixels (the cached block content of   *)
(*             each coarse cell)                                           *)
(*   ui        CivUI: game (attached), renderer, dirty,                    *)
(*             animationFramePending                                       *)
(*   last      history: the last operation, its arguments, the dirty       *)
(*             bitsets before it and the calls it made on the renderer     *)
(*   query     the last lookup in a transition table (SpecLUT)             *)
(***************************************************************************)
VARIABLES game, renderer, ui, last, query

vars ==
  <<game, renderer, ui, last, query>>

(***************************************************************************)
(* Renderer constants (webciv-render.js) and the definitions data          *)
(* (webciv-defs.js) the renderer reads.                                    *)
(***************************************************************************)

kGridShift ==
  3
kGridSize ==
  2 ^ kGridShift
kBlockShift ==
  5
kBlockSize ==
  2 ^ kBlockShift
tileSize ==
  32
\* Pixels of one coarse cell: tileSize * kGridSize.
gridPixels ==
  tileSize * kGridSize

TerrainDesert ==
  0
TerrainGrassland ==
  2
TerrainOcean ==
  10
kRiver ==
  1
kRoad ==
  16
kRailroad ==
  32

kIrrigation ==
  64

\* GameMap.supressNotifications: set to 0 by the constructor and written by
\* nothing else in the sources.
supressNotifications ==
  0

\* defs.terrains[id].assetId, by terrain id 0..10 (the position of the asset
\* in defs.assets).
TerrainAssetId ==
  [id \in 0..10 |->
     CASE id = 0 -> 4
       [] id = 1 -> 3
       [] id = 6 -> 5
       [] id = 7 -> 6
       [] id = 9 -> 7
       [] id = 10 -> 1
       [] OTHER -> 2]

\* defs.assets[id].dominance, by asset id; 0 for an asset without one.
AssetDominance ==
  [a \in 0..18 |->
     CASE a = 1 -> 1
       [] a = 2 -> 6
       [] a = 3 -> 5
       [] a = 4 -> 2
       [] a = 5 -> 4
       [] a = 6 -> 3
       [] a = 7 -> 7
       [] OTHER -> 0]

\* Asset ids the renderer names: Texture.Ocean, Texture.Coast, the blend maps.
AssetTextureOcean ==
  1
AssetTextureCoast ==
  8
AssetBlendMapTerrain2 ==
  12
AssetBlendMapCoast ==
  13
AssetBlendMapCoastLine ==
  14

(***************************************************************************)
(* Renderer.updateTerrainDominance: the three tables built on attach.      *)
(***************************************************************************)

dominanceById ==
  [id \in 0..10 |-> AssetDominance[TerrainAssetId[id]]]

\* textureByDominance[d]: the asset of the last terrain (in id order, ocean
\* skipped) with dominance d; NoAsset where the array has a hole.
textureByDominance ==
  [d \in 0..8 |->
     LET ids == {id \in 0..9 : dominanceById[id] = d}
     IN  IF ids = {} THEN NoAsset
         ELSE TerrainAssetId[CHOOSE id \in ids : \A j \in ids : j <= id]]

blendmapByDominance ==
  [d \in 0..8 |->
     IF textureByDominance[d] = NoAsset THEN NoAsset ELSE AssetBlendMapTerrain2]

(***************************************************************************)
(* Int32Array bitsets.  A bitset is [len, bits]: len 32-bit words and the  *)
(* set of the offsets whose bit is set (offset off is bit off & 31 of word *)
(* off >> 5).  A write to a word outside the array is dropped by the       *)
(* typed array; a read there gives undefined, which `&` treats as 0.       *)
(***************************************************************************)

\* new Int32Array(len): all zero.
NewBits(len) ==
  [len |-> len, bits |-> {}]

\* A plausible slip: the new array is left as allocated, all zero.
FillBits_none(bs) ==
  [bs EXCEPT !.bits = {}]

\* array.fill(0xFFFFFFFF): every bit of every word.
FillBits(bs) ==
  [bs EXCEPT !.bits = 0..(32 * bs.len - 1)]

\* A plausible slip: `^=` for `|=`, which clears a bit that is already set.
SetBit_xor(bs, off) ==
  IF Shr(off, 5) < 0 \/ Shr(off, 5) >= bs.len THEN bs
  ELSE IF off \in bs.bits THEN [bs EXCEPT !.bits = @ \ {off}]
  ELSE [bs EXCEPT !.bits = @ \cup {off}]

\* array[off >> 5] |= 1 << (off & 31)
SetBit(bs, off) ==
  IF Shr(off, 5) < 0 \/ Shr(off, 5) >= bs.len THEN bs
  ELSE [bs EXCEPT !.bits = @ \cup {off}]

\* array[off >>> 5] & (1 << (off & 31)), as a truth value.
TestBit(bs, off) ==
  off \in bs.bits

\* mask &= ~bit, written back to the array.
ClearBit(bs, off) ==
  [bs EXCEPT !.bits = @ \ {off}]

(***************************************************************************)
(* GameMap: coordinates.  flipX and flipY are true, so normX / normY are   *)
(* _flipX / _flipY.                                                        *)
(***************************************************************************)

\* GameMap._flipX(x) / _flipY(y) on a map of size n along that axis.
flip(x, n) ==
  IF x < 0 \/ x >= n
    THEN LET r == JsRem(x, n) IN IF r < 0 THEN r + n ELSE r
    ELSE x

\* new GameTile(x, y) as GameMap.resize leaves it: terrain initialId, no
\* modifiers, no owner, no city, no units.
NewGameTile(initialId) ==
  [id |-> initialId, modifiers |-> 0, territory |-> 0 - 1,
   city |-> 0 - 1, units |-> << >>]

\* new RendererTile().  transitions is the list of 7-tuples of the
\* Int32Array, << >> for null (the code never stores an empty array).
NewRendererTile ==
  [baseTexture |-> 0, transitions |-> << >>, coverEdges |-> 0,
   terrainEdges |-> 0, riverEdges |-> 0, roadEdges |-> 0, territoryEdges |-> 0]

(***************************************************************************)
(* Renderer.$updateMapTile(x, y, mapTile, rendererTile): the derived data  *)
(* of one tile from the map tile handed in and the 8 neighbours of (x, y). *)
(***************************************************************************)

\* A plausible slip: the neighbours are clamped at the edge of the map, not
\* wrapped around it.
NeighborIndex_clamp(x, y, w, h) ==
  LET xPrev == IF x = 0 THEN 0 ELSE x - 1
      yPrev == IF y = 0 THEN 0 ELSE y - 1
      xNext == IF x = w - 1 THEN x ELSE x + 1
      yNext == IF y = h - 1 THEN y ELSE y + 1
  IN  [f \in {EdgeTopLeft, EdgeTop, EdgeTopRight, EdgeLeft, EdgeRight,
              EdgeBottomLeft, EdgeBottom, EdgeBottomRight} |->
        CASE f = EdgeTopLeft     -> yPrev * w + xPrev
          [] f = EdgeTop         -> yPrev * w + x
          [] f = EdgeTopRight    -> yPrev * w + xNext
          [] f = EdgeLeft        -> y * w + xPrev
          [] f = EdgeRight       -> y * w + xNext
          [] f = EdgeBottomLeft  -> yNext * w + xPrev
          [] f = EdgeBottom      -> yNext * w + x
          [] f = EdgeBottomRight -> yNext * w + xNext]

\* The indices of the 8 neighbours of (x, y), by edge flag.
NeighborIndex(x, y, w, h) ==
  LET xPrev == flip(x - 1, w)
      yPrev == flip(y - 1, h)
      xNext == flip(x + 1, w)
      yNext == flip(y + 1, h)
  IN  [f \in {EdgeTopLeft, EdgeTop, EdgeTopRight, EdgeLeft, EdgeRight,
              EdgeBottomLeft, EdgeBottom, EdgeBottomRight} |->
        CASE f = EdgeTopLeft     -> yPrev * w + xPrev
          [] f = EdgeTop         -> yPrev * w + x
          [] f = EdgeTopRight    -> yPrev * w + xNext
          [] f = EdgeLeft        -> y * w + xPrev
          [] f = EdgeRight       -> y * w + xNext
          [] f = EdgeBottomLeft  -> yNext * w + xPrev
          [] f = EdgeBottom      -> yNext * w + x
          [] f = EdgeBottomRight -> yNext * w + xNext]

RECURSIVE SumOf(_)
\* The sum of a finite set of distinct flags, which is their bitwise or.
SumOf(S) ==
  IF S = {} THEN 0
  ELSE LET f == CHOOSE e \in S : TRUE IN f + SumOf(S \ {f})

AllEdges ==
  {EdgeTopLeft, EdgeTop, EdgeTopRight, EdgeLeft, EdgeRight,
   EdgeBottomLeft, EdgeBottom, EdgeBottomRight}

SideEdges ==
  {EdgeTop, EdgeLeft, EdgeBottom, EdgeRight}

\* The bounding-box index of a blend-map asset (assetStore.assets[msk].index):
\* << >> while AssetStore.update has not indexed the image.
AtlasIndexOf(msk) ==
  << >>

\* A plausible slip: the index is read at idx, not at idx * 4.
pushTransition_unscaled(index, transitions, tex, msk, idx, sqSize) ==
  LET offset == idx * sqSize
  IN  IF index # << >>
        THEN Append(transitions,
               <<tex, msk, offset, index[idx + 1], index[idx + 2],
                 index[idx + 3], index[idx + 4]>>)
        ELSE Append(transitions, <<tex, msk, offset, 0, 0, sqSize, sqSize>>)

\* The body of $addTransition, index being assets[msk].index (<< >> for
\* null).
pushTransition(index, transitions, tex, msk, idx, sqSize) ==
  LET offset == idx * sqSize
  IN  IF index # << >>
        THEN Append(transitions,
               <<tex, msk, offset, index[idx * 4 + 1], index[idx * 4 + 2],
                 index[idx * 4 + 3], index[idx * 4 + 4]>>)
        ELSE Append(transitions, <<tex, msk, offset, 0, 0, sqSize, sqSize>>)

\* Renderer.$addTransition(transitions, tex, msk, idx, sqSize).
addTransition(transitions, tex, msk, idx, sqSize) ==
  pushTransition(AtlasIndexOf(msk), transitions, tex, msk, idx, sqSize)

RECURSIVE dominanceLoop_nomask(_, _, _, _)
\* A plausible slip: the rank loop queues a transition for every rank,
\* whether or not a neighbour has it.
dominanceLoop_nomask(transitions, i, nb, domAt) ==
  IF i > 8 THEN transitions
  ELSE LET mask == SumOf({f \in AllEdges : domAt[f] = i})
       IN  dominanceLoop_nomask(
             addTransition(transitions, textureByDominance[i],
                           blendmapByDominance[i], TerrainTransitions.LUT[mask], 32),
             i + 1, nb, domAt)

RECURSIVE dominanceLoop(_, _, _, _)
\* for (i = dominance + 1; i <= 8; i++): a transition per rank i that a
\* neighbour has.  domAt[f] is dominanceById[id] of the neighbour at flag f.
dominanceLoop(transitions, i, nb, domAt) ==
  IF i > 8 THEN transitions
  ELSE LET mask == SumOf({f \in AllEdges : domAt[f] = i})
       IN  dominanceLoop(
             IF mask # 0
               THEN addTransition(transitions, textureByDominance[i],
                      blendmapByDominance[i], TerrainTransitions.LUT[mask], 32)
               ELSE transitions,
             i + 1, nb, domAt)

\* A plausible slip: the negation is left out for the neighbours, so the
\* mask has the bits of the neighbours the player has uncovered.
coverEdgesOf_seen(g, playerId, x, y) ==
  IF playerId # 0 - 1
    THEN LET bits == g.players[playerId + 1].uncovered
             nb == NeighborIndex(x, y, g.w, g.h)
         IN  IF ~TestBit(bits, y * g.w + x) THEN 256
             ELSE SumOf({f \in AllEdges : TestBit(bits, nb[f])})
    ELSE 0

\* The covered-edge part: 256 for a tile the viewing player has not
\* uncovered, else a bit per neighbour that player has not uncovered.
coverEdgesOf(g, playerId, x, y) ==
  IF playerId # 0 - 1
    THEN LET bits == g.players[playerId + 1].uncovered
             nb == NeighborIndex(x, y, g.w, g.h)
         IN  IF ~TestBit(bits, y * g.w + x) THEN 256
             ELSE SumOf({f \in AllEdges : ~TestBit(bits, nb[f])})
    ELSE 0

\* A plausible slip: the ad hoc substitution for the coast is left out.
baseTerrainOf_own(id, terrainEdges) ==
  id

\* The terrain whose texture is the base layer and whose rank the rank loop
\* starts from: the desert for an ocean tile with a neighbour that is not
\* ocean, else the tile's own.
baseTerrainOf(id, terrainEdges) ==
  IF terrainEdges # 255 /\ id = TerrainOcean THEN TerrainDesert ELSE id

\* A plausible slip: the two coast transitions are keyed by the terrain edge
\* mask itself, not by its complement.
coastTransitions_same(transitions, id, terrainEdges) ==
  IF id = TerrainOcean /\ terrainEdges # 255
    THEN addTransition(
           addTransition(transitions, AssetTextureOcean, AssetBlendMapCoast,
                         TerrainTransitions.LUT[terrainEdges], 32),
           AssetTextureCoast, AssetBlendMapCoastLine,
           TerrainTransitions.LUT[terrainEdges], 32)
    ELSE transitions

\* if (id === TerrainType.Ocean && terrainEdges !== 0xFF): open ocean under
\* the coast blend map, then the coast texture under the coast line.
coastTransitions(transitions, id, terrainEdges) ==
  IF id = TerrainOcean /\ terrainEdges # 255
    THEN addTransition(
           addTransition(transitions, AssetTextureOcean, AssetBlendMapCoast,
                         TerrainTransitions.LUT[255 - terrainEdges], 32),
           AssetTextureCoast, AssetBlendMapCoastLine,
           TerrainTransitions.LUT[255 - terrainEdges], 32)
    ELSE transitions

\* A plausible slip: ocean neighbours count for every tile, ocean or not,
\* river or not.
riverEdgesOf_all(g, nb, mapTile) ==
  SumOf({f \in SideEdges : \/ BitAnd(g.tiles[nb[f]].modifiers, kRiver) # 0
                           \/ g.tiles[nb[f]].id = TerrainOcean})

\* The river edges: the sides with a river for an ocean or a river tile,
\* and for a river tile on land the sides with ocean too.
riverEdgesOf(g, nb, mapTile) ==
  LET riverNb == SumOf({f \in SideEdges : BitAnd(g.tiles[nb[f]].modifiers, kRiver) # 0})
      oceanNb == SumOf({f \in SideEdges : g.tiles[nb[f]].id = TerrainOcean})
  IN  IF mapTile.id = TerrainOcean THEN riverNb
      ELSE IF BitAnd(mapTile.modifiers, kRiver) # 0 THEN BitOr(riverNb, oceanNb)
      ELSE 0

\* A plausible slip: the `continue` for a modifier the tile does not have is
\* left out.
roadEdgesOf_nocontinue(g, nb, mapTile) ==
  IF BitAnd(mapTile.modifiers, kRoad + kRailroad) # 0
    THEN BitOr(SumOf({f \in AllEdges : BitAnd(g.tiles[nb[f]].modifiers, kRoad) # 0}),
               SumOf({f \in AllEdges : BitAnd(g.tiles[nb[f]].modifiers, kRailroad) # 0}) * 256)
    ELSE 0

\* The road and railroad edges: for each of the two modifiers the tile has,
\* the neighbours that have it; roads in the low byte, railroads in the
\* high byte.
roadEdgesOf(g, nb, mapTile) ==
  LET has(t, mask) == BitAnd(t.modifiers, mask) # 0
      road == IF has(mapTile, kRoad)
                THEN SumOf({f \in AllEdges : has(g.tiles[nb[f]], kRoad)}) ELSE 0
      rail == IF has(mapTile, kRailroad)
                THEN SumOf({f \in AllEdges : has(g.tiles[nb[f]], kRailroad)}) ELSE 0
  IN  BitOr(road, rail * 256)

updateMapTile(g, playerId, x, y, tileIndex) ==
  LET mapTile == g.tiles[tileIndex]
      id == mapTile.id
      nb == NeighborIndex(x, y, g.w, g.h)
      terrainEdges == SumOf({f \in AllEdges : g.tiles[nb[f]].id = id})
      dominance == dominanceById[baseTerrainOf(id, terrainEdges)]
      domAt == [f \in AllEdges |-> dominanceById[g.tiles[nb[f]].id]]
      t1 == dominanceLoop(<< >>, dominance + 1, nb, domAt)
      t2 == coastTransitions(t1, id, terrainEdges)
  IN  [coverEdges     |-> coverEdgesOf(g, playerId, x, y),
       baseTexture    |-> TerrainAssetId[baseTerrainOf(id, terrainEdges)],
       terrainEdges   |-> terrainEdges,
       transitions    |-> IF Len(t2) # 0 THEN t2 ELSE << >>,
       riverEdges     |-> riverEdgesOf(g, nb, mapTile),
       roadEdges      |-> roadEdgesOf(g, nb, mapTile),
       territoryEdges |-> IF mapTile.territory # 0 - 1
                            THEN SumOf({f \in AllEdges :
                                   g.tiles[nb[f]].territory = mapTile.territory})
                            ELSE 0]

(***************************************************************************)
(* CivUI: frame scheduling.                                                *)
(***************************************************************************)

\* A plausible slip: a new frame is asked for on every call, pending or not.
CivUI_requestAnimationFrame_again(u) ==
  [u EXCEPT !.animationFramePending = TRUE, !.frames = @ + 1]

\* CivUI.requestAnimationFrame(): at most one frame callback outstanding.
CivUI_requestAnimationFrame(u) ==
  IF ~u.animationFramePending
    THEN [u EXCEPT !.animationFramePending = TRUE, !.frames = @ + 1]
    ELSE u

\* CivUI.makeDirty().
CivUI_makeDirty(u) ==
  IF u.dirty # TRUE
    THEN [CivUI_requestAnimationFrame(u) EXCEPT !.dirty = TRUE]
    ELSE u

(***************************************************************************)
(* Renderer: the dirty grid.  The operators take and return the program    *)
(* state S = [game, renderer, ui, calls, threw]: calls collects the        *)
(* invalidate* calls made on the renderer, threw is set when the code      *)
(* raises an exception (a TypeError on null or undefined), which ends the  *)
(* operation where it stands.                                              *)
(***************************************************************************)

RECURSIVE markCols_nowrap(_, _, _, _, _)
\* A plausible slip: the column index is not wrapped at the grid width.
markCols_nowrap(D, gx, dx1, base, gw) ==
  IF gx > dx1 \/ D.t = NullBits THEN D
  ELSE LET off == base + gx
       IN  markCols_nowrap([t |-> SetBit(D.t, off), b |-> SetBit(D.b, off)],
                           gx + 1, dx1, base, gw)

RECURSIVE markCols(_, _, _, _, _)
\* for (gx = ..; gx <= dx1; gx++): the bit of one cell in both arrays.
\* D is [t |-> tilesDirty, b |-> blocksDirty], arrays that exist (the caller
\* has thrown on null ones).
markCols(D, gx, dx1, base, gw) ==
  IF gx > dx1 \/ D.t = NullBits THEN D
  ELSE LET off == base + (IF gx >= gw THEN gx - gw ELSE gx)
       IN  markCols([t |-> SetBit(D.t, off), b |-> SetBit(D.b, off)],
                    gx + 1, dx1, base, gw)

RECURSIVE markRows(_, _, _, _, _, _, _)
\* for (gy = ..; gy <= dy1; gy++)
markRows(D, gy, dy1, dx0, dx1, gw, gh) ==
  IF gy > dy1 \/ D.t = NullBits THEN D
  ELSE LET base == (IF gy >= gh THEN gy - gh ELSE gy) * gw
       IN  markRows(markCols(D, dx0, dx1, base, gw), gy + 1, dy1, dx0, dx1, gw, gh)

\* Renderer.invalidateRect(rx, ry, rw, rh).  Without a map (this.map null)
\* or without a grid ($tilesDirty null) the code throws before any write.
Renderer_invalidateRect(S, rx, ry, rw, rh) ==
  IF S.threw THEN S
  ELSE IF ~S.renderer.game \/ S.renderer.tilesDirty = NullBits
    THEN [S EXCEPT !.threw = TRUE]
  ELSE
    LET mw == S.game.w
        mh == S.game.h
        mx0 == IF rx - 1 < 0 \/ rx - 1 >= mw THEN repeat(rx - 1, mw) ELSE rx - 1
        my0 == IF ry - 1 < 0 \/ ry - 1 >= mh THEN repeat(ry - 1, mh) ELSE ry - 1
        mx1 == mx0 + rw + 1
        my1 == my0 + rh + 1
        dx0 == Shr(mx0, kGridShift)
        dy0 == Shr(my0, kGridShift)
        dx1 == Shr(mx1, kGridShift)
        dy1 == Shr(my1, kGridShift)
        D == markRows([t |-> S.renderer.tilesDirty, b |-> S.renderer.blocksDirty],
                      dy0, dy1, dx0, dx1, S.renderer.gridW, S.renderer.gridH)
    IN  [S EXCEPT !.renderer.tilesDirty = D.t,
                  !.renderer.blocksDirty = D.b,
                  !.ui = IF S.game.ui THEN CivUI_makeDirty(@) ELSE @,
                  !.calls = @ \cup {<<"invalidateRect", rx, ry, rw, rh>>}]

\* Renderer.invalidateTile(mx, my).
Renderer_invalidateTile(S, mx, my) ==
  IF S.threw THEN S
  ELSE Renderer_invalidateRect(
         [S EXCEPT !.calls = @ \cup {<<"invalidateTile", mx, my>>}], mx, my, 1, 1)

\* Renderer.invalidateAll().
Renderer_invalidateAll(S) ==
  IF S.threw THEN S
  ELSE IF ~S.renderer.game THEN [S EXCEPT !.threw = TRUE]
  ELSE Renderer_invalidateRect(
         [S EXCEPT !.calls = @ \cup {<<"invalidateAll">>}], 0, 0, S.game.w, S.game.h)

\* A tile of a block canvas nothing was drawn on.
BlankTile ==
  [base |-> NoAsset, transitions |-> << >>, river |-> << >>]

\* The canvas region of a coarse cell before anything is drawn on it.
BlankCell ==
  [c \in (0..(kGridSize - 1)) \X (0..(kGridSize - 1)) |-> BlankTile]

\* The block content of no grid.
NoPixels ==
  [o \in {} |-> BlankCell]

\* The RendererTile array of no map.
NoTiles ==
  [i \in {} |-> NewRendererTile]

\* RenderUtils.createCanvas(blockSq, blockSq) pushed on $blocks.  A canvas
\* is known by a tag; a new one gets the least tag no canvas of the pool
\* has.
pushCanvas(blocks) ==
  Append(blocks, CHOOSE t \in 1..(Len(blocks) + 1) :
                   /\ \A k \in DOMAIN blocks : blocks[k] # t
                   /\ \A u \in 1..(t - 1) : \E k \in DOMAIN blocks : blocks[k] = u)

\* A plausible slip: the pool is emptied first (the tags of the old canvases
\* still taken), so every block of the new grid is a new canvas.
blockLoop_fresh(blocks, gridIndex, bx, by, blockIndex, gridSize) ==
  LET n == (gridSize + 15) \div 16
      old == Len(blocks)
  IN  [k \in 1..n |-> old + k]

RECURSIVE blockLoop(_, _, _, _, _, _)
\* The loop of $createGrid over the cells from gridIndex on, and after it
\* blocks.length = blockIndex + 1: a canvas is pushed when the cell's block
\* is past the end of the pool, and the pool is cut after the last block
\* used.  A block is kBlockSize / kGridSize cells wide and high.
blockLoop(blocks, gridIndex, bx, by, blockIndex, gridSize) ==
  LET gridSq == kGridSize * tileSize
      blockSq == kBlockSize * tileSize
      pool == IF blockIndex >= Len(blocks) THEN pushCanvas(blocks) ELSE blocks
      rowEnds == bx + gridSq >= blockSq
      blockEnds == rowEnds /\ by + gridSq >= blockSq
  IN  IF gridIndex + 1 >= gridSize THEN SubSeq(pool, 1, blockIndex + 1)
      ELSE blockLoop(pool, gridIndex + 1,
                     IF rowEnds THEN 0 ELSE bx + gridSq,
                     IF blockEnds THEN 0 ELSE IF rowEnds THEN by + gridSq ELSE by,
                     IF blockEnds THEN blockIndex + 1 ELSE blockIndex,
                     gridSize)

\* A RendererGrid as the loop of $createGrid leaves it.
GridEntry(gx, gy, bx, by, blockIndex) ==
  [worldX |-> gx * kGridSize * tileSize, worldY |-> gy * kGridSize * tileSize,
   blockX |-> bx, blockY |-> by, blockIndex |-> blockIndex]

RECURSIVE gridLoop_norow(_, _, _, _, _, _, _, _, _)
\* A plausible slip: at the end of a row of the block bx starts again but
\* by stays, and the next block starts after four cells.
gridLoop_norow(grid, gridIndex, gx, gy, bx, by, blockIndex, gridW, gridSize) ==
  LET gridSq == kGridSize * tileSize
      blockSq == kBlockSize * tileSize
      entries == Append(grid, GridEntry(gx, gy, bx, by, blockIndex))
      rowEnds == bx + gridSq >= blockSq
  IN  IF gridIndex + 1 >= gridSize THEN entries
      ELSE gridLoop_norow(entries, gridIndex + 1,
                          IF gx + 1 >= gridW THEN 0 ELSE gx + 1,
                          IF gx + 1 >= gridW THEN gy + 1 ELSE gy,
                          IF rowEnds THEN 0 ELSE bx + gridSq,
                          by,
                          blockIndex,
                          gridW, gridSize)

RECURSIVE gridLoop(_, _, _, _, _, _, _, _, _)
\* The loop of $createGrid over the cells from gridIndex on: the $grid
\* entry of each cell gets its world position and its place in a block,
\* the cells filling a block row by row and one block after the other.
\* $grid is cut or grown to gridSize entries first and every entry is
\* written, so the entries are those the loop writes.
gridLoop(grid, gridIndex, gx, gy, bx, by, blockIndex, gridW, gridSize) ==
  LET gridSq == kGridSize * tileSize
      blockSq == kBlockSize * tileSize
      entries == Append(grid, GridEntry(gx, gy, bx, by, blockIndex))
      rowEnds == bx + gridSq >= blockSq
      blockEnds == rowEnds /\ by + gridSq >= blockSq
  IN  IF gridIndex + 1 >= gridSize THEN entries
      ELSE gridLoop(entries, gridIndex + 1,
                    IF gx + 1 >= gridW THEN 0 ELSE gx + 1,
                    IF gx + 1 >= gridW THEN gy + 1 ELSE gy,
                    IF rowEnds THEN 0 ELSE bx + gridSq,
                    IF blockEnds THEN 0 ELSE IF rowEnds THEN by + gridSq ELSE by,
                    IF blockEnds THEN blockIndex + 1 ELSE blockIndex,
                    gridW, gridSize)

\* Renderer.$createGrid(gridW, gridH): nothing when the grid dimensions are
\* the ones it has; else both bit arrays filled and $tiles cut or grown to
\* one RendererTile per map tile (the kept ones keep their data), and the
\* block pool cut or grown to the blocks the cells need.
createGrid(S, gridW, gridH) ==
  IF S.renderer.gridW = gridW /\ S.renderer.gridH = gridH THEN S
  ELSE
    LET mapSize == S.game.w * S.game.h
        gridBitArraySize == Shr(gridW * gridH + 31, 5)
        old == S.renderer.tiles
    IN  [S EXCEPT !.renderer.gridW = gridW,
                  !.renderer.gridH = gridH,
                  !.renderer.tilesDirty = FillBits(NewBits(gridBitArraySize)),
                  !.renderer.blocksDirty = FillBits(NewBits(gridBitArraySize)),
                  !.renderer.tiles =
                     [i \in 0..(mapSize - 1) |->
                        IF i \in DOMAIN old THEN old[i] ELSE NewRendererTile],
                  !.renderer.pixels = [o \in 0..(gridW * gridH - 1) |->
                        IF o \in DOMAIN @ THEN @[o] ELSE BlankCell],
                  !.renderer.blocks = blockLoop(@, 0, 0, 0, 0, gridW * gridH),
                  !.renderer.grid = gridLoop(<< >>, 0, 0, 0, 0, 0, 0, gridW, gridW * gridH)]

\* Renderer.$deleteGrid(): $grid is left as it is.
deleteGrid(S) ==
  [S EXCEPT !.renderer.gridW = 0,
            !.renderer.gridH = 0,
            !.renderer.tiles = NoTiles,
            !.renderer.tilesDirty = NullBits,
            !.renderer.blocksDirty = NullBits,
            !.renderer.pixels = NoPixels,
            !.renderer.blocks = << >>]

\* Renderer.$onMapResize(): the handler of "mapResize", also run by
\* onAttach and onDetach.
Renderer_onMapResize(S) ==
  IF S.threw THEN S
  ELSE
    LET w == IF S.renderer.game THEN S.game.w ELSE 0
        h == IF S.renderer.game THEN S.game.h ELSE 0
    IN  IF w # 0 /\ h # 0
          THEN createGrid(
                 [S EXCEPT !.renderer.worldX = 0, !.renderer.worldY = 0,
                           !.renderer.worldW = tileSize * w,
                           !.renderer.worldH = tileSize * h],
                 (w + kGridSize - 1) \div kGridSize,
                 (h + kGridSize - 1) \div kGridSize)
          ELSE deleteGrid(
                 [S EXCEPT !.renderer.worldX = 0, !.renderer.worldY = 0,
                           !.renderer.worldW = 0, !.renderer.worldH = 0])

(***************************************************************************)
(* Renderer: recomputing the dirty cells ($updateMapArea and the two steps *)
(* it runs per cell).                                                      *)
(***************************************************************************)

\* const tileStride = mw - w
tileStrideOf(mw, w) ==
  mw - w

RECURSIVE rectCols(_, _, _, _)
\* for (tx = ..; tx < txEnd; tx++, tileIndex++): $updateMapTile on the pair
\* mapTiles[tileIndex], rendererTiles[tileIndex]; either undefined throws
\* at the first access.  R is [S, tileIndex], the running index included;
\* the call is recorded in S.calls with its tile and the index handed in.
rectCols(R, tx, ty, txEnd) ==
  IF tx >= txEnd \/ R.S.threw THEN R
  ELSE IF R.tileIndex \notin DOMAIN R.S.game.tiles
          \/ R.tileIndex \notin DOMAIN R.S.renderer.tiles
    THEN [R EXCEPT !.S.threw = TRUE]
  ELSE rectCols(
         [S |-> [R.S EXCEPT !.renderer.tiles[R.tileIndex] =
                   updateMapTile(R.S.game, R.S.renderer.playerId, tx, ty, R.tileIndex),
                            !.calls = @ \cup {<<"updateMapTile", tx, ty, R.tileIndex>>}],
          tileIndex |-> R.tileIndex + 1],
         tx + 1, ty, txEnd)

RECURSIVE rectRows(_, _, _, _, _, _)
\* for (ty = ..; ty < tyEnd; ty++, tileIndex += tileStride)
rectRows(R, ty, x, txEnd, tyEnd, tileStride) ==
  IF ty >= tyEnd \/ R.S.threw THEN R
  ELSE LET R1 == rectCols(R, x, ty, txEnd)
       IN  rectRows([R1 EXCEPT !.tileIndex = @ + tileStride],
                    ty + 1, x, txEnd, tyEnd, tileStride)

\* Renderer.$updateMapRect(x, y, w, h).
updateMapRect(S, x, y, w, h) ==
  LET mw == S.game.w
      mh == S.game.h
      txEnd == Min(x + w, mw)
      tyEnd == Min(y + h, mh)
  IN  rectRows([S |-> S, tileIndex |-> y * mw + x],
               y, x, txEnd, tyEnd, tileStrideOf(mw, w)).S

\* What $renderTerrainCache draws for one tile: the base texture, the
\* transitions and the river overlay.
drawTile(mapTile, rendererTile) ==
  [base |-> rendererTile.baseTexture,
   transitions |-> rendererTile.transitions,
   river |-> IF mapTile.id = TerrainOcean
               THEN (IF rendererTile.terrainEdges # 255
                       THEN <<"mouth", BitAnd(rendererTile.riverEdges, EdgeSides)>>
                       ELSE << >>)
               ELSE IF BitAnd(mapTile.modifiers, kRiver) # 0
                 THEN <<"river", BitAnd(rendererTile.riverEdges, EdgeSides)>>
                 ELSE << >>]

\* A sprite drawn for a tile: its kind, and the source cell in the image.
Draw(kind, sx, sy) ==
  [kind |-> kind, sx |-> sx, sy |-> sy]

RECURSIVE BitXor(_, _)
\* JavaScript's `a ^ b` for non-negative a and b.
BitXor(a, b) ==
  IF a = 0 THEN b
  ELSE IF b = 0 THEN a
  ELSE (((a % 2) + (b % 2)) % 2) + 2 * BitXor(a \div 2, b \div 2)

\* RoadIndex[i], the sprite column of the direction of bit i.
RoadIndex ==
  <<1, 3, 5, 7, 2, 4, 6, 8>>

MaskTL ==
  BitOr(EdgeTopLeft, BitOr(EdgeTop, EdgeLeft))
MaskTR ==
  BitOr(EdgeTopRight, BitOr(EdgeTop, EdgeRight))
MaskBL ==
  BitOr(EdgeBottomLeft, BitOr(EdgeBottom, EdgeLeft))
MaskBR ==
  BitOr(EdgeBottomRight, BitOr(EdgeBottom, EdgeRight))

\* if ((edges & mask) === mask) edges ^= flag
dropCorner(edges, mask, flag) ==
  IF BitAnd(edges, mask) = mask THEN BitXor(edges, flag) ELSE edges

\* A plausible slip: the corner goes when either of its two sides is set.
simplifyRoadEdges_either(edges) ==
  LET drop(e, mask, flag) ==
        IF BitAnd(e, flag) # 0 /\ BitAnd(e, mask - flag) # 0
          THEN BitXor(e, flag) ELSE e
  IN  drop(drop(drop(drop(edges, MaskTL, EdgeTopLeft), MaskTR, EdgeTopRight),
                MaskBL, EdgeBottomLeft), MaskBR, EdgeBottomRight)

\* simplifyRoadEdges(edges)
simplifyRoadEdges(edges) ==
  dropCorner(dropCorner(dropCorner(dropCorner(edges, MaskTL, EdgeTopLeft),
                                   MaskTR, EdgeTopRight),
                        MaskBL, EdgeBottomLeft),
             MaskBR, EdgeBottomRight)

\* for (i = 0; i < 8; i++) if (edges & (1 << i)) drawImage(miscImg,
\* RoadIndex[i] * tileSize, row, ...): the sprites in the order drawn.
edgeSprites(edges, row) ==
  LET set == {i \in 0..7 : BitAnd(edges, 2 ^ i) # 0}
      nth(k) == CHOOSE i \in set : Cardinality({j \in set : j < i}) = k - 1
  IN  [k \in 1..Cardinality(set) |-> Draw("road", RoadIndex[nth(k) + 1] * tileSize, row)]

\* The roads and railroads of $renderMapObjects for a tile with one of the
\* two modifiers: the sprites in the order drawn.  roadEdges &= ~(roadEdges
\* >> 8) clears the road bits of the directions with a railroad.
roadSprites(modifiers, roadEdges) ==
  LET rail == Shr(roadEdges, 8)
      kept == roadEdges - BitAnd(roadEdges % 256, rail)
  IN  IF roadEdges = 0
        THEN <<Draw("road", 0, IF BitAnd(modifiers, kRailroad) # 0 THEN 64 ELSE 32)>>
        ELSE (IF BitAnd(kept, 255) # 0
                THEN edgeSprites(simplifyRoadEdges(kept), 32) ELSE << >>)
             \o (IF rail # 0 THEN edgeSprites(rail, 64)
                 ELSE IF BitAnd(modifiers, kRailroad) # 0 THEN <<Draw("road", 0, 64)>>
                 ELSE << >>)

\* One tile of $renderMapObjects that is not fully covered, up to the city
\* or the unit: irrigation, roads and railroads, the resource (resource is
\* GameTile.resource, -1 for none), then the city with its label or the
\* unit with the ghost of a stack.  A city of the model has no building, so
\* no city walls.
spritesBelow(mTile, rTile, resource) ==
  (IF mTile.id # TerrainOcean /\ BitAnd(mTile.modifiers, kIrrigation) # 0
     THEN <<Draw("irrigation", 0, 128)>> ELSE << >>)
  \o (IF mTile.id # TerrainOcean
           /\ BitAnd(mTile.modifiers, BitOr(kRoad, kRailroad)) # 0
        THEN roadSprites(mTile.modifiers, rTile.roadEdges) ELSE << >>)
  \o (IF resource # 0 - 1 THEN <<Draw("resource", resource, 0)>> ELSE << >>)
  \o (IF mTile.city # 0 - 1
        THEN <<Draw("city", 0, 0)>>
             \o (IF mTile.units # << >> THEN <<Draw("defended", 64, 128)>> ELSE << >>)
             \o <<Draw("labelStroke", 0, 0), Draw("labelFill", 0, 0)>>
      ELSE IF mTile.units # << >>
        THEN <<Draw("unit", 0, 0)>>
             \o (IF Len(mTile.units) > 1 THEN <<Draw("ghost", 0, 0)>> ELSE << >>)
      ELSE << >>)

\* The rest of the tile: the cover edges, then the territory.
spritesAbove(mTile, rTile) ==
  (IF rTile.coverEdges # 0
     THEN <<Draw("coverEdges", TerrainTransitions.LUT[rTile.coverEdges] * tileSize, 0)>>
     ELSE << >>)
  \o (IF mTile.territory # 0 - 1 /\ rTile.territoryEdges # 255
        THEN <<Draw("territory",
                    tileSize * TerritoryTransitions.LUT[rTile.territoryEdges],
                    tileSize * mTile.territory)>>
        ELSE << >>)

\* A plausible slip: the cover edges and the territory come first and the
\* objects of the tile are drawn over them.
tileSprites_above(mTile, rTile, resource) ==
  IF rTile.coverEdges = 256 THEN <<Draw("cover", 0, 0)>>
  ELSE spritesAbove(mTile, rTile) \o spritesBelow(mTile, rTile, resource)

\* One tile of $renderMapObjects: the sprites in the order drawn.
tileSprites(mTile, rTile, resource) ==
  IF rTile.coverEdges = 256 THEN <<Draw("cover", 0, 0)>>
  ELSE spritesBelow(mTile, rTile, resource) \o spritesAbove(mTile, rTile)

\* One tile of $renderMapObjects on a map without resources: the sprites
\* drawn for it.
renderMapObjectsTile(mTile, rTile) ==
  LET sprites(s) == {s[k] : k \in DOMAIN s}
  IN  sprites(tileSprites(mTile, rTile, 0 - 1))

\* Renderer.$renderTerrainCache(block, blockX, blockY, x, y, w, h) for the
\* cell at grid offset off: each tile of the cell drawn from its map tile
\* and RendererTile, row by row; rendererTiles[tileIndex] undefined throws,
\* the tiles before it drawn.
renderTerrainCache(S, off, x, y, w, h) ==
  LET mw == S.game.w
      mh == S.game.h
      txEnd == Min(x + w, mw)
      tyEnd == Min(y + h, mh)
      old == S.renderer.pixels[off]
      ok(i) == i \in DOMAIN S.renderer.tiles /\ i \in DOMAIN S.game.tiles
      drawn == [c \in DOMAIN old |->
                 LET tx == x + c[1]
                     ty == y + c[2]
                     tileIndex == ty * mw + tx
                 IN  IF tx < txEnd /\ ty < tyEnd /\ ok(tileIndex)
                       THEN drawTile(S.game.tiles[tileIndex], S.renderer.tiles[tileIndex])
                       ELSE old[c]]
      fails == \E tx \in x..(txEnd - 1), ty \in y..(tyEnd - 1) : ~ok(ty * mw + tx)
  IN  [S EXCEPT !.renderer.pixels[off] = drawn, !.threw = fails]

\* One cell of $updateMapArea.  A is [S, pendT, pendB]: pendT / pendB are
\* the offsets cleared in tilesMask / blocksMask and not yet written back.
processCell(A, gx, gy) ==
  LET off == gy * A.S.renderer.gridW + gx
      x == gx * kGridSize
      y == gy * kGridSize
      tilesDone(S1) ==
        IF S1.threw THEN [A EXCEPT !.S = S1]
        ELSE [A EXCEPT !.S = S1, !.pendT = @ \cup {off}]
      blocksDone(A1, S2) ==
        IF S2.threw THEN [A1 EXCEPT !.S = S2]
        ELSE [A1 EXCEPT !.S = S2, !.pendB = @ \cup {off}]
      blocks(A1) ==
        IF A1.S.threw THEN A1
        ELSE IF TestBit(A1.S.renderer.blocksDirty, off) /\ off \notin A1.pendB
          THEN blocksDone(A1, renderTerrainCache(A1.S, off, x, y, kGridSize, kGridSize))
          ELSE A1
  IN  blocks(IF TestBit(A.S.renderer.tilesDirty, off) /\ off \notin A.pendT
               THEN tilesDone(updateMapRect(A.S, x, y, kGridSize, kGridSize))
               ELSE A)

\* A plausible slip: only the tile mask is written back.
writeBack_tiles(A) ==
  [S |-> [A.S EXCEPT !.renderer.tilesDirty.bits = @ \ A.pendT],
   pendT |-> {}, pendB |-> {}]

\* tilesDirty[idx] = tilesMask; blocksDirty[idx] = blocksMask
writeBack(A) ==
  [S |-> [A.S EXCEPT !.renderer.tilesDirty.bits = @ \ A.pendT,
                     !.renderer.blocksDirty.bits = @ \ A.pendB],
   pendT |-> {}, pendB |-> {}]

RECURSIVE areaCols(_, _, _, _, _)
\* The inner loop of $updateMapArea from column gx of row gy on.  The masks
\* are written back when gx wraps or the bit leaves the 32-bit word.
areaCols(A, dx, gx, gy, rectX1) ==
  LET gridW == A.S.renderer.gridW
      wraps == gx + 1 >= gridW
      gxNext == IF wraps THEN 0 ELSE gx + 1
      offNext == gy * gridW + gxNext
      next(A1) ==
        IF A1.S.threw THEN A1
        ELSE IF dx + gridPixels >= rectX1 THEN A1
        ELSE areaCols(IF wraps \/ offNext % 32 = 0 THEN writeBack(A1) ELSE A1,
                      dx + gridPixels, gxNext, gy, rectX1)
  IN  next(processCell(A, gx, gy))

RECURSIVE areaRows(_, _, _, _, _, _, _)
\* The outer loop of $updateMapArea from row gy on.
areaRows(A, dy, gy, rectX0, gridX0, rectX1, rectY1) ==
  LET next(A1) ==
        IF A1.S.threw THEN A1
        ELSE IF dy + gridPixels >= rectY1 THEN writeBack(A1)
        ELSE areaRows(writeBack(A1), dy + gridPixels,
                      IF gy + 1 >= A.S.renderer.gridH THEN 0 ELSE gy + 1,
                      rectX0, gridX0, rectX1, rectY1)
  IN  next(areaCols(A, rectX0, gridX0, gy, rectX1))

\* Renderer.$updateMapArea(x0, y0, x1, y1).
updateMapArea(S, x0, y0, x1, y1) ==
  LET gridX0 == x0 \div gridPixels
      gridY0 == y0 \div gridPixels
      rectX0 == gridX0 * gridPixels - x0
      rectY0 == gridY0 * gridPixels - y0
  IN  areaRows([S |-> S, pendT |-> {}, pendB |-> {}],
               rectY0, gridY0, rectX0, gridX0, x1, y1).S

\* Renderer.render(): nothing without a game or a map; FAILED (a throw) on
\* world coordinates outside the world; else the visible dirty cells
\* recomputed.
Renderer_render(S) ==
  IF ~S.renderer.game THEN S
  ELSE IF S.renderer.worldW = 0 \/ S.renderer.worldH = 0 THEN S
  ELSE IF S.renderer.worldX >= S.renderer.worldW \/ S.renderer.worldY >= S.renderer.worldH
    THEN [S EXCEPT !.threw = TRUE]
  ELSE updateMapArea(S, S.renderer.worldX, S.renderer.worldY,
                     S.renderer.worldX + S.renderer.sceneW,
                     S.renderer.worldY + S.renderer.sceneH)

(***************************************************************************)
(* CivUI handlers, GamePlayer.$onMapResize and Observable.emit.  A listener *)
(* is [who, slot]: the renderer, the ui, or the player of a slot.          *)
(***************************************************************************)

\* CivUI.updateCanvasSize(): the renderer's scene set to the size of the
\* element (the one the renderer was constructed with), then makeDirty().
CivUI_updateCanvasSize(S) ==
  [S EXCEPT !.ui = CivUI_makeDirty(@)]

\* CivUI.onRendererAttached(renderer).
CivUI_onRendererAttached(S) ==
  IF S.threw THEN S
  ELSE CivUI_updateCanvasSize([S EXCEPT !.ui.renderer = TRUE])

\* CivUI.onRendererDetached().
CivUI_onRendererDetached(S) ==
  IF S.threw THEN S
  ELSE [S EXCEPT !.ui.renderer = FALSE]

\* CivUI.onUncovered(x, y, player).
CivUI_onUncovered(S, x, y, slot) ==
  IF S.threw THEN S
  ELSE IF S.ui.renderer /\ slot = S.renderer.playerId
    THEN LET S1 == Renderer_invalidateTile(S, x, y)
         IN  IF S1.threw THEN S1 ELSE [S1 EXCEPT !.ui = CivUI_makeDirty(@)]
    ELSE S

\* GamePlayer.$onMapResize(): fresh, all-zero fog and uncovered bit arrays
\* of one bit per tile, or null without a map.
GamePlayer_onMapResize(S, slot) ==
  IF S.threw THEN S
  ELSE LET w == S.game.w
           h == S.game.h
       IN  [S EXCEPT !.game.players[slot + 1].uncovered =
              IF w # 0 /\ h # 0 THEN NewBits((w * h + 31) \div 32) ELSE NullBits]

\* The names of the events the model follows.
Events ==
  {"mapResize", "invalidateAll", "invalidateTile", "invalidateRect",
   "uncovered", "rendererAttached", "rendererDetached"}

\* listener.func.apply(listener.this, args)
callListener(S, listener, event, args) ==
  CASE listener.who = "renderer" /\ event = "mapResize" -> Renderer_onMapResize(S)
    [] listener.who = "renderer" /\ event = "invalidateAll" -> Renderer_invalidateAll(S)
    [] listener.who = "renderer" /\ event = "invalidateTile" ->
         Renderer_invalidateTile(S, args[1], args[2])
    [] listener.who = "renderer" /\ event = "invalidateRect" ->
         Renderer_invalidateRect(S, args[1], args[2], args[3], args[4])
    [] listener.who = "player" /\ event = "mapResize" ->
         GamePlayer_onMapResize(S, listener.slot)
    [] listener.who = "ui" /\ event = "uncovered" ->
         CivUI_onUncovered(S, args[1], args[2], args[3])
    [] listener.who = "ui" /\ event = "rendererAttached" ->
         CivUI_onRendererAttached(S)
    [] listener.who = "ui" /\ event = "rendererDetached" ->
         CivUI_onRendererDetached(S)
    [] OTHER -> S

RECURSIVE emitLoop(_, _, _, _, _)
\* while (i < len): the listeners registered when the emit started, in
\* registration order; an exception of a listener ends the loop.
emitLoop(S, event, args, i, len) ==
  IF i > len \/ S.threw THEN S
  ELSE emitLoop(callListener(S, S.game.handlers[event][i], event, args),
                event, args, i + 1, len)

\* Observable.emit(event, ...args) on the game.
emit(S, event, args) ==
  IF S.threw THEN S
  ELSE emitLoop(S, event, args, 1, Len(S.game.handlers[event]))

\* Observable.on(event, func, thisArg) on the game.
on(S, event, listener) ==
  [S EXCEPT !.game.handlers[event] = Append(@, listener)]

\* Observable.off(event, func, thisArg) on the game, called outside of an
\* emit (arr.emitting === 0): at the first listener that matches, the code
\* calls listener.splice(i, 1) on the listener object, which has no such
\* method, and throws; without a match nothing changes.
off(S, event, listener) ==
  IF S.threw THEN S
  ELSE IF \E i \in 1..Len(S.game.handlers[event]) : S.game.handlers[event][i] = listener
    THEN [S EXCEPT !.threw = TRUE]
  ELSE S

(***************************************************************************)
(* Game and GameMap.                                                       *)
(***************************************************************************)

\* Game.invalidateTile(x, y)
Game_invalidateTile(S, x, y) ==
  emit(S, "invalidateTile", <<x, y>>)

\* Game.invalidateRect(x, y, w, h)
Game_invalidateRect(S, x, y, w, h) ==
  emit(S, "invalidateRect", <<x, y, w, h>>)

\* Game.invalidateAll()
Game_invalidateAll(S) ==
  emit(S, "invalidateAll", << >>)

\* GameMap.invalidateTile(x, y)
GameMap_invalidateTile(S, x, y) ==
  IF supressNotifications = 0 THEN Game_invalidateTile(S, x, y) ELSE S

\* GameMap.invalidateRect(x, y, w, h)
GameMap_invalidateRect(S, x, y, w, h) ==
  IF supressNotifications = 0 THEN Game_invalidateRect(S, x, y, w, h) ELSE S

\* GameMap.invalidateAll()
GameMap_invalidateAll(S) ==
  IF supressNotifications = 0 THEN Game_invalidateAll(S) ELSE S

\* GameMap.resize(w, h, initialId): w * h fresh tiles, then "mapResize".
GameMap_resize(S, w, h, initialId) ==
  emit([S EXCEPT !.game.w = w, !.game.h = h,
                 !.game.tiles = [i \in 0..(w * h - 1) |-> NewGameTile(initialId)]],
       "mapResize", << >>)

\* Game.createMap(w, h)
Game_createMap(S, w, h) ==
  Game_invalidateAll(GameMap_resize(S, w, h, TerrainOcean))

\* The DEBUG bounds test of the GameMap setters: FAILED throws.
OutOfBounds(S, x, y) ==
  x < 0 \/ y < 0 \/ x >= S.game.w \/ y >= S.game.h

\* GameMap.setTileId(x, y, id)
GameMap_setTileId(S, x, y, id) ==
  IF OutOfBounds(S, x, y) THEN [S EXCEPT !.threw = TRUE]
  ELSE IF S.game.tiles[y * S.game.w + x].id = id THEN S
  ELSE LET S1 == [S EXCEPT !.game.tiles[y * S.game.w + x].id = id]
       IN  IF supressNotifications = 0 THEN Game_invalidateTile(S1, x, y) ELSE S1

\* GameMap.setTileModifiers(x, y, modifiers)
GameMap_setTileModifiers(S, x, y, modifiers) ==
  IF OutOfBounds(S, x, y) THEN [S EXCEPT !.threw = TRUE]
  ELSE IF S.game.tiles[y * S.game.w + x].modifiers = modifiers THEN S
  ELSE LET S1 == [S EXCEPT !.game.tiles[y * S.game.w + x].modifiers = modifiers]
       IN  IF supressNotifications = 0 THEN Game_invalidateTile(S1, x, y) ELSE S1

\* GameMap.setTileIdAndModifiers(x, y, id, modifiers)
GameMap_setTileIdAndModifiers(S, x, y, id, modifiers) ==
  IF OutOfBounds(S, x, y) THEN [S EXCEPT !.threw = TRUE]
  ELSE LET tile == S.game.tiles[y * S.game.w + x]
       IN  IF tile.id = id /\ tile.modifiers = modifiers THEN S
           ELSE LET S1 == [S EXCEPT !.game.tiles[y * S.game.w + x].id = id,
                                    !.game.tiles[y * S.game.w + x].modifiers = modifiers]
                IN  IF supressNotifications = 0 THEN Game_invalidateTile(S1, x, y) ELSE S1

\* Brush.City: the 3x3 square and the 12 tiles two steps away that are
\* not diagonal corners.
BrushCity ==
  {p \in (-2..2) \X (-2..2) : ~(p[1] \in {-2, 2} /\ p[2] \in {-2, 2})}

\* GamePlayer.uncoverTile(mx, my): the bit of the wrapped tile set, and
\* "uncovered" emitted when it was clear.  Without a map the bit array is
\* null and the read throws.
GamePlayer_uncoverTile(S, slot, mx, my) ==
  IF S.threw THEN S
  ELSE IF S.game.players[slot + 1].uncovered = NullBits THEN [S EXCEPT !.threw = TRUE]
  ELSE
    LET w == S.game.w
        h == S.game.h
        out == mx < 0 \/ my < 0 \/ mx >= w \/ my >= h
        rx == JsRem(mx, w)
        ry == JsRem(my, h)
        x == IF out THEN (IF rx < 0 THEN rx + w ELSE rx) ELSE mx
        y == IF out THEN (IF ry < 0 THEN ry + h ELSE ry) ELSE my
        pos == y * w + x
    IN  IF ~TestBit(S.game.players[slot + 1].uncovered, pos)
          THEN emit([S EXCEPT !.game.players[slot + 1].uncovered = SetBit(@, pos)],
                    "uncovered", <<x, y, slot>>)
          ELSE S

RECURSIVE uncoverCols(_, _, _, _, _)
\* while (x !== x1), wrapping x at w: a covered tile is uncovered and
\* "uncovered" emitted for it.
uncoverCols(S, slot, x, y, x1) ==
  IF S.threw \/ x = x1 THEN S
  ELSE LET pos == y * S.game.w + x
           S1 == IF ~TestBit(S.game.players[slot + 1].uncovered, pos)
                   THEN emit([S EXCEPT !.game.players[slot + 1].uncovered = SetBit(@, pos)],
                             "uncovered", <<x, y, slot>>)
                   ELSE S
       IN  uncoverCols(S1, slot, IF x + 1 = S.game.w THEN 0 ELSE x + 1, y, x1)

RECURSIVE uncoverLoop(_, _, _, _, _, _)
\* while (y !== y1), wrapping y at h.
uncoverLoop(S, slot, y, x0, x1, y1) ==
  IF S.threw \/ y = y1 THEN S
  ELSE uncoverLoop(uncoverCols(S, slot, x0, y, x1), slot,
                   IF y + 1 = S.game.h THEN 0 ELSE y + 1, x0, x1, y1)

\* GamePlayer.uncoverRect(rx, ry, rw, rh).
GamePlayer_uncoverRect(S, slot, rx, ry, rw, rh) ==
  IF S.threw THEN S
  ELSE IF S.game.players[slot + 1].uncovered = NullBits THEN [S EXCEPT !.threw = TRUE]
  ELSE
    LET w == S.game.w
        h == S.game.h
        norm == rx < 0 \/ ry < 0 \/ rx + rw >= w \/ ry + rh >= h
        x0 == IF norm THEN flip(rx, w) ELSE rx
        y0 == IF norm THEN flip(ry, h) ELSE ry
        x1 == IF norm THEN flip(rx + rw, w) ELSE rx + rw
        y1 == IF norm THEN flip(ry + rh, h) ELSE ry + rh
    IN  uncoverLoop(S, slot, y0, x0, x1, y1)

\* Game.createPlayer(info): the next slot, subscribed to "mapResize", its
\* bit arrays sized by $onMapResize.
Game_createPlayer(S) ==
  LET slot == Len(S.game.players)
      S1 == [S EXCEPT !.game.players =
               Append(@, [uncovered |-> NullBits, units |-> << >>, cities |-> << >>])]
  IN  GamePlayer_onMapResize(on(S1, "mapResize", [who |-> "player", slot |-> slot]), slot)

\* GameMap.assignUnit(unit): appended to the list of the unit's tile; a
\* position outside the map has no tile, which throws.
GameMap_assignUnit(S, unit) ==
  LET u == S.game.units[unit + 1]
      i == u.y * S.game.w + u.x
  IN  IF S.threw THEN S
      ELSE IF i \notin DOMAIN S.game.tiles THEN [S EXCEPT !.threw = TRUE]
      ELSE [S EXCEPT !.game.tiles[i].units = Append(@, unit)]

\* GameMap.removeUnit(unit): unlinked from the list of its tile; FAILED
\* when it is not there.
GameMap_removeUnit(S, unit) ==
  LET u == S.game.units[unit + 1]
      i == u.y * S.game.w + u.x
  IN  IF S.threw THEN S
      ELSE IF i \notin DOMAIN S.game.tiles THEN [S EXCEPT !.threw = TRUE]
      ELSE IF \A k \in DOMAIN S.game.tiles[i].units : S.game.tiles[i].units[k] # unit
        THEN [S EXCEPT !.threw = TRUE]
      ELSE [S EXCEPT !.game.tiles[i].units = SelectSeq(@, LAMBDA v : v # unit)]

\* GameMap.moveUnit(unit, dstX, dstY)
GameMap_moveUnit(S, unit, dstX, dstY) ==
  LET x == flip(dstX, S.game.w)
      y == flip(dstY, S.game.h)
      u == S.game.units[unit + 1]
  IN  IF u.x = x /\ u.y = y THEN S
      ELSE LET S1 == GameMap_removeUnit(S, unit)
           IN  IF S1.threw THEN S1
               ELSE GameMap_assignUnit(
                      [S1 EXCEPT !.game.units[unit + 1].x = x,
                                 !.game.units[unit + 1].y = y], unit)

\* Game.createUnit(info): the unit on its tile and in its player's list,
\* and the 7x7 square around it uncovered for the player.
Game_createUnit(S, player, x, y) ==
  LET slot == Len(S.game.units)
      S1 == GameMap_assignUnit(
              [S EXCEPT !.game.units = Append(@, [player |-> player, x |-> x, y |-> y])],
              slot)
  IN  IF S1.threw THEN S1
      ELSE GamePlayer_uncoverRect(
             [S1 EXCEPT !.game.players[player + 1].units = Append(@, slot)],
             player, x - 3, y - 3, 7, 7)

\* Game.createCity(info): the city on its tile, the tiles of Brush.City
\* around it (wrapped) given to the player, then "invalidateRect" for the
\* 5x5 square.
Game_createCity(S, player, x, y) ==
  LET slot == Len(S.game.cities)
      w == S.game.w
      h == S.game.h
      i == y * w + x
      owned == {flip(y + p[2], h) * w + flip(x + p[1], w) : p \in BrushCity}
  IN  IF i \notin DOMAIN S.game.tiles THEN [S EXCEPT !.threw = TRUE]
      ELSE emit(
             [S EXCEPT !.game.cities = Append(@, [player |-> player, x |-> x, y |-> y]),
                       !.game.players[player + 1].cities = Append(@, slot),
                       !.game.tiles = [n \in DOMAIN @ |->
                          [@[n] EXCEPT !.city = IF n = i THEN slot ELSE @,
                                       !.territory = IF n \in owned THEN player ELSE @]]],
             "invalidateRect", <<x - 2, y - 2, 5, 5>>)

\* Renderer.onAttach(game)
Renderer_onAttach(S) ==
  LET r == [who |-> "renderer", slot |-> 0 - 1]
      S1 == on(on(on(on([S EXCEPT !.renderer.game = TRUE],
                 "mapResize", r), "invalidateAll", r), "invalidateTile", r),
                 "invalidateRect", r)
  IN  Renderer_onMapResize(S1)

\* Renderer.onDetach(): the four off calls, then game and map set to null
\* and $onMapResize(), which deletes the grid.
Renderer_onDetach(S) ==
  LET r == [who |-> "renderer", slot |-> 0 - 1]
      dropped(S1) ==
        IF S1.threw THEN S1
        ELSE Renderer_onMapResize([S1 EXCEPT !.renderer.game = FALSE])
  IN  dropped(off(off(off(off(S, "mapResize", r), "invalidateAll", r),
                      "invalidateTile", r), "invalidateRect", r))

\* Game.resetRenderer()
Game_resetRenderer(S) ==
  LET detached(S1) ==
        IF S1.threw THEN S1
        ELSE emit([S1 EXCEPT !.game.renderer = FALSE], "rendererDetached", << >>)
  IN  detached(Renderer_onDetach(S))

\* Game.setRenderer(renderer)
Game_setRenderer(S) ==
  emit(Renderer_onAttach([S EXCEPT !.game.renderer = TRUE]), "rendererAttached", << >>)

\* CivUI.onAttach(game)
CivUI_onAttach(S) ==
  LET u == [who |-> "ui", slot |-> 0 - 1]
      S1 == on(on(on([S EXCEPT !.ui.game = TRUE], "uncovered", u),
                  "rendererAttached", u), "rendererDetached", u)
  IN  IF S1.game.renderer THEN CivUI_onRendererAttached(S1) ELSE S1

\* Game.setUI(ui)
Game_setUI(S) ==
  CivUI_onAttach([S EXCEPT !.game.ui = TRUE])

\* A plausible slip: the dirty flag is read after it has been cleared, so
\* the callback never renders and never asks for the next frame.
CivUI_onRender_late(S) ==
  LET S1 == [S EXCEPT !.ui.dirty = FALSE, !.ui.animationFramePending = FALSE]
      dirty == S1.ui.dirty
      S2 == IF S1.ui.renderer /\ dirty
              THEN Renderer_render([S1 EXCEPT !.calls = @ \cup {<<"render">>}])
              ELSE S1
  IN  IF S2.threw THEN S2
      ELSE IF dirty THEN [S2 EXCEPT !.ui = CivUI_requestAnimationFrame(@)] ELSE S2

\* CivUI.onRender(): the frame callback; the render() call it makes is
\* recorded in S.calls.
CivUI_onRender(S) ==
  LET dirty == S.ui.dirty
      S1 == [S EXCEPT !.ui.dirty = FALSE, !.ui.animationFramePending = FALSE]
      S2 == IF S1.ui.renderer /\ dirty
              THEN Renderer_render([S1 EXCEPT !.calls = @ \cup {<<"render">>}])
              ELSE S1
  IN  IF S2.threw THEN S2
      ELSE IF dirty THEN [S2 EXCEPT !.ui = CivUI_requestAnimationFrame(@)] ELSE S2

\* set playerId(id)
Renderer_setPlayerId(S, id) ==
  IF S.renderer.playerId # id
    THEN Renderer_invalidateAll([S EXCEPT !.renderer.playerId = id])
    ELSE S

(***************************************************************************)
(* Bounds and input sets of the life-cycle specification.                  *)
(***************************************************************************)

MaxPlayers ==
  1
MaxUnits ==
  1
MaxCities ==
  1

\* Map sizes of Game.createMap: one cell, one cell of another width, and a
\* width that is not a multiple of the cell size.
MapSizes ==
  {<<4, 4>>, <<8, 4>>, <<12, 4>>}

\* The size of the renderer's container, in pixels.
SceneSizes ==
  {<<300, 200>>}

\* The tiles the terrain editor touches, and what it writes.
EditTiles ==
  {<<0, 0>>}
EditIds ==
  {TerrainOcean, TerrainGrassland}
EditModifiers ==
  {0, kRiver}

\* Widths and heights of map.invalidateRect.
RectSizes ==
  {2}

\* Where units are created and moved to, where a city is founded, and the
\* tiles uncovered one by one.
UnitTiles ==
  {<<1, 1>>, <<2, 1>>}
CityTiles ==
  {<<0, 0>>}
UncoverTiles ==
  {<<0, 0>>}

(***************************************************************************)
(* The state after construction: new Game(defs), new Renderer(container),  *)
(* new CivUI(), nothing attached and no map.                               *)
(***************************************************************************)

NewGame ==
  [w |-> 0, h |-> 0, tiles |-> [i \in {} |-> NewGameTile(0)],
   players |-> << >>, units |-> << >>, cities |-> << >>,
   renderer |-> FALSE, ui |-> FALSE,
   handlers |-> [e \in Events |-> << >>]]

NewRenderer(scene) ==
  [game |-> FALSE, sceneW |-> scene[1], sceneH |-> scene[2],
   worldX |-> 0, worldY |-> 0, worldW |-> 0, worldH |-> 0,
   playerId |-> 0 - 1, gridW |-> 0, gridH |-> 0,
   tiles |-> NoTiles, tilesDirty |-> NullBits, blocksDirty |-> NullBits,
   pixels |-> NoPixels, blocks |-> << >>, grid |-> << >>]

NewCivUI ==
  [game |-> FALSE, renderer |-> FALSE, dirty |-> FALSE,
   animationFramePending |-> FALSE, frames |-> 0]

\* The program state the operators work on.
CurS ==
  [game |-> game, renderer |-> renderer, ui |-> ui, calls |-> {}, threw |-> FALSE]

\* What `last` keeps of the state an operation started in.
PreOf(S) ==
  [w |-> S.game.w, h |-> S.game.h,
   tilesDirty |-> S.renderer.tilesDirty, blocksDirty |-> S.renderer.blocksDirty,
   playerId |-> S.renderer.playerId]

\* The tiles whose authoritative data differ between two states, and the
\* tiles whose uncovered bit of the viewing player differs.
ChangedTiles(S0, S1) ==
  IF S0.game.tiles = S1.game.tiles THEN {}
  ELSE {i \in DOMAIN S0.game.tiles \cap DOMAIN S1.game.tiles :
          S0.game.tiles[i] # S1.game.tiles[i]}

ChangedFog(S0, S1) ==
  LET p == S1.renderer.playerId
  IN  IF p = 0 - 1 \/ p + 1 > Len(S0.game.players) THEN {}
      ELSE IF S0.game.players = S1.game.players THEN {}
      ELSE {i \in DOMAIN S1.game.tiles :
              TestBit(S0.game.players[p + 1].uncovered, i) #
              TestBit(S1.game.players[p + 1].uncovered, i)}

NoLast ==
  [op |-> "new", args |-> << >>, pre |-> PreOf([game |-> NewGame,
      renderer |-> NewRenderer(<<0, 0>>)]),
   calls |-> {}, threw |-> FALSE, changedTiles |-> {}, changedFog |-> {},
   cleanFrames |-> 0]

NoQuery ==
  [style |-> "terrain", r1 |-> 0, r2 |-> 0, i1 |-> 0 - 1, i2 |-> 0 - 1,
   n |-> 0, pre1 |-> 0 - 1, k1 |-> 0, k2 |-> 0, preK1 |-> 0 - 1,
   preK2 |-> 0 - 1, lutK1 |-> 0 - 1, done |-> FALSE]

\* The step of an operation: the state it leaves, and its record in `last`.
\* cleanFrames counts the frame callbacks that found the dirty flag clear
\* since makeDirty() last set it: 0, 1, or 2 for two and more.
Commit(op, args, S1) ==
  /\ game' = S1.game
  /\ renderer' = S1.renderer
  /\ ui' = S1.ui
  /\ last' = [op |-> op, args |-> args, pre |-> PreOf(CurS),
              calls |-> S1.calls, threw |-> S1.threw,
              changedTiles |-> ChangedTiles(CurS, S1),
              changedFog |-> ChangedFog(CurS, S1),
              cleanFrames |-> IF op = "onRender"
                                THEN (IF ui.dirty THEN 0 ELSE Min(last.cleanFrames + 1, 2))
                                ELSE IF S1.ui.dirty /\ ~ui.dirty THEN 0
                                ELSE last.cleanFrames]
  /\ UNCHANGED query

Init ==
  /\ game = NewGame
  /\ \E scene \in SceneSizes : renderer = NewRenderer(scene)
  /\ ui = NewCivUI
  /\ last = NoLast
  /\ query = NoQuery

\* Tiles of the given set that are on the map.
OnMap(tiles) ==
  {t \in tiles : t[1] < game.w /\ t[2] < game.h}

(***************************************************************************)
(* The operations of the life cycle, one action each.                      *)
(***************************************************************************)

\* game.setRenderer(renderer), once.
SetRenderer ==
  /\ ~game.renderer
  /\ Commit("setRenderer", << >>, Game_setRenderer(CurS))

\* game.setUI(ui), once.
SetUI ==
  /\ ~game.ui
  /\ Commit("setUI", << >>, Game_setUI(CurS))

\* game.createMap(w, h), for a map wider than the one there is
CreateMap ==
  \E size \in {z \in MapSizes : z[1] > game.w} :
    Commit("createMap", size, Game_createMap(CurS, size[1], size[2]))

\* game.createPlayer(info)
CreatePlayer ==
  /\ Len(game.players) < MaxPlayers
  /\ Commit("createPlayer", << >>, Game_createPlayer(CurS))

\* map.setTileId(x, y, id) on a tile of the map
SetTileId ==
  \E t \in OnMap(EditTiles), id \in EditIds :
    Commit("setTileId", <<t[1], t[2], id>>, GameMap_setTileId(CurS, t[1], t[2], id))

\* map.setTileModifiers(x, y, modifiers) on a tile of the map
SetTileModifiers ==
  \E t \in OnMap(EditTiles), m \in EditModifiers :
    Commit("setTileModifiers", <<t[1], t[2], m>>,
           GameMap_setTileModifiers(CurS, t[1], t[2], m))

\* map.setTileIdAndModifiers(x, y, id, modifiers) on a tile of the map
SetTileIdAndModifiers ==
  \E t \in OnMap(EditTiles), id \in EditIds, m \in EditModifiers :
    Commit("setTileIdAndModifiers", <<t[1], t[2], id, m>>,
           GameMap_setTileIdAndModifiers(CurS, t[1], t[2], id, m))

\* map.invalidateTile(x, y)
InvalidateTile ==
  \E t \in OnMap(EditTiles) :
    Commit("invalidateTile", t, GameMap_invalidateTile(CurS, t[1], t[2]))

\* map.invalidateRect(x, y, w, h)
InvalidateRect ==
  \E t \in OnMap(EditTiles), w \in RectSizes, h \in RectSizes :
    Commit("invalidateRect", <<t[1], t[2], w, h>>,
           GameMap_invalidateRect(CurS, t[1], t[2], w, h))

\* map.invalidateAll()
InvalidateAll ==
  Commit("invalidateAll", << >>, GameMap_invalidateAll(CurS))

\* renderer.render()
Render ==
  Commit("render", << >>, Renderer_render(CurS))

\* The browser runs the frame callback requested last.
OnRender ==
  /\ ui.frames > 0
  /\ Commit("onRender", << >>, CivUI_onRender([CurS EXCEPT !.ui.frames = @ - 1]))

\* game.createUnit({player, x, y}) on a tile of the map
CreateUnit ==
  /\ Len(game.units) < MaxUnits
  /\ \E p \in 0..(Len(game.players) - 1), t \in OnMap(UnitTiles) :
       Commit("createUnit", <<p, t[1], t[2]>>, Game_createUnit(CurS, p, t[1], t[2]))

\* map.moveUnit(unit, dstX, dstY)
MoveUnit ==
  \E u \in 0..(Len(game.units) - 1), t \in OnMap(UnitTiles) :
    Commit("moveUnit", <<u, t[1], t[2]>>, GameMap_moveUnit(CurS, u, t[1], t[2]))

\* game.createCity({player, x, y}) on a tile of the map
CreateCity ==
  /\ Len(game.cities) < MaxCities
  /\ \E p \in 0..(Len(game.players) - 1), t \in OnMap(CityTiles) :
       Commit("createCity", <<p, t[1], t[2]>>, Game_createCity(CurS, p, t[1], t[2]))

\* player.uncoverTile(mx, my)
UncoverTile ==
  \E p \in 0..(Len(game.players) - 1), t \in OnMap(UncoverTiles) :
    Commit("uncoverTile", <<p, t[1], t[2]>>,
           GamePlayer_uncoverTile(CurS, p, t[1], t[2]))

\* renderer.playerId = id, for "all" (-1) or a player of the game
SetPlayerId ==
  \E id \in (0 - 1)..(Len(game.players) - 1) :
    Commit("setPlayerId", <<id>>, Renderer_setPlayerId(CurS, id))

\* The renderer and its cache: attach, maps, terrain edits, invalidations
\* and render().
Next ==
  \/ SetRenderer
  \/ CreateMap
  \/ SetTileId
  \/ SetTileModifiers
  \/ SetTileIdAndModifiers
  \/ InvalidateTile
  \/ InvalidateRect
  \/ InvalidateAll
  \/ Render

Spec ==
  Init /\ [][Next]_vars

\* The game layer: players, units, cities and fog over the attached
\* renderer and ui.
NextGame ==
  \/ SetRenderer
  \/ SetUI
  \/ CreateMap
  \/ CreatePlayer
  \/ SetTileId
  \/ SetTileModifiers
  \/ SetTileIdAndModifiers
  \/ CreateUnit
  \/ MoveUnit
  \/ CreateCity
  \/ UncoverTile
  \/ SetPlayerId

SpecGame ==
  Init /\ [][NextGame]_vars

(***************************************************************************)
(* SpecGrid: the dirty grid of a renderer attached to a game with a map,   *)
(* over more map sizes; Renderer.invalidate* called directly.              *)
(***************************************************************************)

\* Map sizes: one cell, multiples of the cell size, sizes that are not.
GridMaps ==
  {<<4, 4>>, <<12, 4>>, <<8, 16>>}

GridScenes ==
  {<<64, 64>>, <<600, 600>>}

\* Positions and extents along an axis of n tiles: a single tile at the
\* origin, one inside the first cell, two tiles straddling the edge, the
\* whole axis, one more than the whole axis, and a single tile inside the
\* second cell.
AxisCases(n) ==
  {<<0, 1>>, <<1, 1>>, <<n - 1, 2>>, <<n - 2, 4>>, <<0, n>>, <<0, n + 1>>}
    \cup (IF n > kGridSize + 1 THEN {<<kGridSize + 1, 1>>} ELSE {})

\* The state after game.setRenderer(renderer) and game.createMap(w, h).
GridState(size, scene) ==
  Game_createMap(
    Game_setRenderer([game |-> NewGame, renderer |-> NewRenderer(scene),
                      ui |-> NewCivUI, calls |-> {}, threw |-> FALSE]),
    size[1], size[2])

InitGrid ==
  \E size \in GridMaps, scene \in GridScenes :
    /\ game = GridState(size, scene).game
    /\ renderer = GridState(size, scene).renderer
    /\ ui = GridState(size, scene).ui
    /\ last = NoLast
    /\ query = NoQuery

\* renderer.invalidateRect(rx, ry, rw, rh)
RendererInvalidateRect ==
  \E xc \in AxisCases(game.w), yc \in AxisCases(game.h) :
    Commit("Renderer.invalidateRect", <<xc[1], yc[1], xc[2], yc[2]>>,
           Renderer_invalidateRect(CurS, xc[1], yc[1], xc[2], yc[2]))

\* renderer.invalidateAll()
RendererInvalidateAll ==
  Commit("Renderer.invalidateAll", << >>, Renderer_invalidateAll(CurS))

NextGrid ==
  \/ RendererInvalidateRect
  \/ RendererInvalidateAll
  \/ Render

SpecGrid ==
  InitGrid /\ [][NextGrid]_vars

(***************************************************************************)
(* SpecFrame: frame scheduling.  makeDirty() calls, from input events and  *)
(* from the invalidations of an attached renderer, interleaved with the    *)
(* frame callbacks the browser runs.                                       *)
(***************************************************************************)

\* ui.makeDirty(), as the input handlers of CivUI call it.
MakeDirty ==
  Commit("makeDirty", << >>, [CurS EXCEPT !.ui = CivUI_makeDirty(@)])

NextFrame ==
  \/ SetRenderer
  \/ SetUI
  \/ CreateMap
  \/ InvalidateTile
  \/ InvalidateAll
  \/ MakeDirty
  \/ OnRender

SpecFrame ==
  Init /\ [][NextFrame]_vars

\* The browser runs every frame callback that was requested: again and
\* again no callback is outstanding or one has just run.  Weak fairness of
\* OnRender implies this, since OnRender is enabled exactly while a callback
\* is outstanding and leaves "onRender" in last.op.
FramesRun ==
  []<>(ui.frames = 0 \/ last.op = "onRender")

SpecFrameLive ==
  Init /\ [][NextFrame]_vars /\ FramesRun

(***************************************************************************)
(* SpecUnits: the units of a map as the linked lists the code keeps.       *)
(* `query` is the game seen through its units: objs are the GameUnit       *)
(* objects ever made, numbered from 1 (0 is null), each with its slot,     *)
(* position, next pointer and deleted flag; units is Game.units (an object *)
(* or null per slot); heads is GameTile.units per tile; playerUnits is the *)
(* units array of the one player.  op, unit, from and was tell what the    *)
(* last operation was called on and what the lists were before it.  The    *)
(* fog createUnit uncovers is followed by Game_createUnit.                 *)
(***************************************************************************)

\* The GameUnit objects ever made.
MaxUnitObjects ==
  3

UnitMapSizes ==
  {<<2, 1>>, <<2, 2>>}

\* Game.$findSlot(array): the first null slot, or the length.
findSlot(array) ==
  IF \E k \in DOMAIN array : array[k] = 0
    THEN (CHOOSE k \in DOMAIN array :
            array[k] = 0 /\ \A j \in DOMAIN array : array[j] = 0 => k <= j) - 1
    ELSE Len(array)

RECURSIVE tailOf(_, _)
\* while (cur.next !== null) cur = cur.next
tailOf(m, cur) ==
  IF m.objs[cur].next = 0 THEN cur ELSE tailOf(m, m.objs[cur].next)

\* GameMap.assignUnit(unit): linked behind the last unit of its tile.
assignUnit(m, unit) ==
  LET u == m.objs[unit]
      i == u.y * m.w + u.x + 1
  IN  IF m.heads[i] = 0 THEN [m EXCEPT !.heads[i] = unit]
      ELSE [m EXCEPT !.objs[tailOf(m, m.heads[i])].next = unit]

RECURSIVE removeLoop_keepnext(_, _, _, _, _)
\* A plausible slip: the unlinked unit keeps its next pointer.
removeLoop_keepnext(m, unit, i, cur, prev) ==
  IF cur = 0 THEN [m EXCEPT !.threw = TRUE]
  ELSE IF cur = unit
    THEN IF prev = 0 THEN [m EXCEPT !.heads[i] = m.objs[cur].next]
         ELSE [m EXCEPT !.objs[prev].next = m.objs[cur].next]
  ELSE removeLoop_keepnext(m, unit, i, m.objs[cur].next, cur)

RECURSIVE removeLoop(_, _, _, _, _)
\* for (;;) of GameMap.removeUnit, at cur with prev before it: FAILED at
\* the end of the list, the unit unlinked where it is found.
removeLoop(m, unit, i, cur, prev) ==
  IF cur = 0 THEN [m EXCEPT !.threw = TRUE]
  ELSE IF cur = unit
    THEN LET m1 == IF prev = 0 THEN [m EXCEPT !.heads[i] = m.objs[cur].next]
                   ELSE [m EXCEPT !.objs[prev].next = m.objs[cur].next]
         IN  [m1 EXCEPT !.objs[cur].next = 0]
  ELSE removeLoop(m, unit, i, m.objs[cur].next, cur)

\* GameMap.removeUnit(unit)
removeUnit(m, unit) ==
  LET u == m.objs[unit]
      i == u.y * m.w + u.x + 1
  IN  removeLoop(m, unit, i, m.heads[i], 0)

\* GameMap.moveUnit(unit, dstX, dstY)
moveUnit(m, unit, dstX, dstY) ==
  LET x == flip(dstX, m.w)
      y == flip(dstY, m.h)
      moved(m1) ==
        IF m1.threw THEN m1
        ELSE assignUnit([m1 EXCEPT !.objs[unit].x = x, !.objs[unit].y = y], unit)
  IN  IF m.objs[unit].x = x /\ m.objs[unit].y = y THEN m
      ELSE moved(removeUnit(m, unit))

\* Game.createUnit(info): a new object in the first free slot, on its tile
\* and in its player's array.
createUnit(m, x, y) ==
  LET slot == findSlot(m.units)
      unit == Len(m.objs) + 1
      m1 == [m EXCEPT !.objs = Append(@, [slot |-> slot, x |-> x, y |-> y,
                                           next |-> 0, deleted |-> FALSE]),
                      !.units = IF slot = Len(@) THEN Append(@, unit)
                                ELSE [@ EXCEPT ![slot + 1] = unit]]
      listed(m2) == [m2 EXCEPT !.playerUnits = Append(@, unit)]
  IN  listed(assignUnit(m1, unit))

\* array.splice(array.indexOf(unit), 1): indexOf is -1 for a unit that is
\* not there, and splice(-1, 1) takes the last element away.
spliceUnit(array, unit) ==
  LET at == IF \E k \in DOMAIN array : array[k] = unit
              THEN CHOOSE k \in DOMAIN array :
                     array[k] = unit /\ \A j \in DOMAIN array : array[j] = unit => k <= j
              ELSE Len(array)
  IN  [k \in 1..(Len(array) - (IF Len(array) > 0 THEN 1 ELSE 0)) |->
         IF k < at THEN array[k] ELSE array[k + 1]]

\* Game.destroyUnit(unit): out of its player's array and off its tile, its
\* slot set to null, the object marked deleted.
destroyUnit(m, unit) ==
  LET slot == m.objs[unit].slot
      gone(m1) ==
        IF m1.threw THEN m1
        ELSE [m1 EXCEPT !.units[slot + 1] = 0, !.objs[unit].deleted = TRUE]
  IN  gone(removeUnit([m EXCEPT !.playerUnits = spliceUnit(@, unit)], unit))

RECURSIVE listOf(_, _, _)
\* The units linked from cur on, at most fuel of them.
listOf(m, cur, fuel) ==
  IF cur = 0 \/ fuel = 0 THEN << >>
  ELSE <<cur>> \o listOf(m, m.objs[cur].next, fuel - 1)

\* The list of every tile.
listsOf(m) ==
  [i \in DOMAIN m.heads |-> listOf(m, m.heads[i], Len(m.objs) + 1)]

\* A game with a map and one player, no unit yet.
InitUnits ==
  /\ game = NewGame
  /\ renderer = NewRenderer(<<0, 0>>)
  /\ ui = NewCivUI
  /\ last = NoLast
  /\ \E size \in UnitMapSizes :
       query = [w |-> size[1], h |-> size[2], objs |-> << >>, units |-> << >>,
                heads |-> [i \in 1..(size[1] * size[2]) |-> 0],
                playerUnits |-> << >>, threw |-> FALSE,
                op |-> "new", unit |-> 0, from |-> 0, was |-> << >>]

\* The record of an operation on a unit: what it was called on, the tile
\* the unit stood on and the lists before the call.
UnitStep(op, unit, from, m1) ==
  /\ query' = [m1 EXCEPT !.op = op, !.unit = unit, !.from = from,
                         !.was = listsOf(query)]
  /\ UNCHANGED <<game, renderer, ui, last>>

\* The state an operation starts in: no exception in flight.
UnitsNow ==
  [query EXCEPT !.threw = FALSE]

\* The index in heads of the tile a unit object stands on.
TileOfUnit(unit) ==
  query.objs[unit].y * query.w + query.objs[unit].x + 1

\* game.createUnit({player, x, y}) on a tile of the map
CreateUnitOnTile ==
  /\ Len(query.objs) < MaxUnitObjects
  /\ \E x \in 0..(query.w - 1), y \in 0..(query.h - 1) :
       UnitStep("createUnit", Len(query.objs) + 1, y * query.w + x + 1,
                createUnit(UnitsNow, x, y))

\* map.moveUnit(unit, x, y) to a tile of the map, for a unit object the
\* caller holds, destroyed ones included
MoveUnitToTile ==
  \E unit \in DOMAIN query.objs, x \in 0..(query.w - 1), y \in 0..(query.h - 1) :
    UnitStep("moveUnit", unit, TileOfUnit(unit), moveUnit(UnitsNow, unit, x, y))

\* game.destroyUnit(unit), for a unit object the caller holds, destroyed
\* ones included
DestroyUnit ==
  \E unit \in DOMAIN query.objs :
    UnitStep("destroyUnit", unit, TileOfUnit(unit), destroyUnit(UnitsNow, unit))

NextUnits ==
  \/ CreateUnitOnTile
  \/ MoveUnitToTile
  \/ DestroyUnit

SpecUnits ==
  InitUnits /\ [][NextUnits]_vars

(***************************************************************************)
(* SpecAssets: the loading queue of AssetStore.  `query` is the store:     *)
(* assets and images per asset id, $queued (the files being fetched, each  *)
(* with the assets that wait for it, which is also the refs array of its   *)
(* Image), $loaded, the three counters and $running.  fetches counts the   *)
(* Image objects made per file; emitted, wasRunning and wasQueued tell     *)
(* what the last operation emitted and started from.  The store is made    *)
(* with the default slowLoadingTimeout of 0, so no timer is set.           *)
(***************************************************************************)

AssetIds ==
  0..2

\* File names; "" is an asset without a file.
AssetFiles ==
  {"a.png", "b.png"}

AssetInfos ==
  [id : AssetIds, file : AssetFiles \cup {""}]

\* The arguments of add(): lists of one or two assets.
AssetLists ==
  {<<x>> : x \in AssetInfos} \cup {<<x, y>> : x \in AssetInfos, y \in AssetInfos}

\* new AssetStore({})
NewAssetStore ==
  [assets |-> [id \in AssetIds |-> FALSE],
   images |-> [id \in AssetIds |-> ""],
   queued |-> {},
   refs |-> [f \in AssetFiles |-> << >>],
   loaded |-> {},
   queuedCount |-> 0, loadedCount |-> 0, failedCount |-> 0,
   running |-> FALSE,
   fetches |-> [f \in AssetFiles |-> 0],
   emitted |-> << >>, threw |-> FALSE,
   op |-> "new", wasRunning |-> FALSE, wasQueued |-> {}]

\* Observable.emit(name) on the store.
emitted(a, name) ==
  [a EXCEPT !.emitted = Append(@, name)]

\* AssetStore.update(id, data): FAILED for an asset that was not added,
\* else the image of the asset set.
AssetStore_update(a, id, file) ==
  IF a.threw THEN a
  ELSE IF ~a.assets[id] THEN [a EXCEPT !.threw = TRUE]
  ELSE [a EXCEPT !.images[id] = file]

\* AssetStore.$addToQueue(file, refs): an Image made for the file.
AssetStore_addToQueue(a, file) ==
  [a EXCEPT !.fetches[file] = @ + 1, !.queuedCount = @ + 1]

\* AssetStore.$addAsset(asset)
AssetStore_addAsset(a, asset) ==
  LET id == asset.id
      file == asset.file
      started(a1) ==
        IF ~a1.running THEN emitted([a1 EXCEPT !.running = TRUE], "start") ELSE a1
  IN  IF a.threw THEN a
      ELSE IF a.assets[id] THEN [a EXCEPT !.threw = TRUE]
      ELSE IF file = "" THEN [a EXCEPT !.assets[id] = TRUE]
      ELSE IF file \in a.loaded
        THEN AssetStore_update([a EXCEPT !.assets[id] = TRUE], id, file)
      ELSE IF file \in a.queued
        THEN [a EXCEPT !.assets[id] = TRUE, !.refs[file] = Append(@, asset)]
      ELSE AssetStore_addToQueue(
             started([a EXCEPT !.assets[id] = TRUE,
                               !.queued = @ \cup {file},
                               !.refs[file] = <<asset>>]),
             file)

RECURSIVE AssetStore_add(_, _)
\* AssetStore.add(assets): $addAsset for each, up to the first that throws.
AssetStore_add(a, assets) ==
  IF assets = << >> \/ a.threw THEN a
  ELSE AssetStore_add(AssetStore_addAsset(a, Head(assets)), Tail(assets))

\* AssetStore.$removeFromQueue(image, file)
AssetStore_removeFromQueue(a, file) ==
  [a EXCEPT !.queuedCount = @ - 1, !.queued = @ \ {file}, !.refs[file] = << >>]

\* AssetStore.$done(): "complete" when nothing is queued any more.
AssetStore_done(a) ==
  IF a.threw \/ a.queued # {} THEN a
  ELSE emitted([a EXCEPT !.running = FALSE], "complete")

RECURSIVE updateRefs(_, _, _)
\* for (i = 0; i < refs.length; i++) { update(asset.id, data); emit("asset") }
updateRefs(a, refs, file) ==
  IF refs = << >> \/ a.threw THEN a
  ELSE updateRefs(emitted(AssetStore_update(a, Head(refs).id, file), "asset"),
                  Tail(refs), file)

RECURSIVE errorRefs(_, _)
\* for (i = 0; i < refs.length; i++) emit("error", refs[i])
errorRefs(a, refs) ==
  IF refs = << >> THEN a ELSE errorRefs(emitted(a, "error"), Tail(refs))

\* AssetStore.$onLoad, the load callback of the Image of a file.
AssetStore_onLoad(a, file) ==
  LET refs == a.refs[file]
      a1 == AssetStore_removeFromQueue(a, file)
  IN  AssetStore_done(
        updateRefs([a1 EXCEPT !.loaded = @ \cup {file}, !.loadedCount = @ + 1],
                   refs, file))

\* AssetStore.$onError, the error callback of the Image of a file.
AssetStore_onError(a, file) ==
  LET refs == a.refs[file]
      a1 == AssetStore_removeFromQueue(a, file)
  IN  AssetStore_done(errorRefs([a1 EXCEPT !.failedCount = @ + 1], refs))

\* AssetStore.$onAbort, the abort callback of the Image of a file.
AssetStore_onAbort(a, file) ==
  LET refs == a.refs[file]
      a1 == AssetStore_removeFromQueue(a, file)
  IN  AssetStore_done(errorRefs([a1 EXCEPT !.failedCount = @ + 1], refs))

InitAssets ==
  /\ game = NewGame
  /\ renderer = NewRenderer(<<0, 0>>)
  /\ ui = NewCivUI
  /\ last = NoLast
  /\ query = NewAssetStore

\* The record of an operation of the store: what it emitted and the queue
\* it started from.
AssetStep(op, a1) ==
  /\ query' = [a1 EXCEPT !.op = op, !.wasRunning = query.running,
                         !.wasQueued = query.queued]
  /\ UNCHANGED <<game, renderer, ui, last>>

\* The store as an operation finds it.
StoreNow ==
  [query EXCEPT !.emitted = << >>, !.threw = FALSE]

\* store.add(assets)
AddAssets ==
  \E assets \in AssetLists : AssetStep("add", AssetStore_add(StoreNow, assets))

\* The browser has loaded the image of a queued file.
ImageLoaded ==
  \E file \in query.queued : AssetStep("load", AssetStore_onLoad(StoreNow, file))

\* The browser has failed to load the image of a queued file.
ImageFailed ==
  \E file \in query.queued : AssetStep("error", AssetStore_onError(StoreNow, file))

\* The load of the image of a queued file was aborted.
ImageAborted ==
  \E file \in query.queued : AssetStep("abort", AssetStore_onAbort(StoreNow, file))

NextAssets ==
  \/ AddAssets
  \/ ImageLoaded
  \/ ImageFailed
  \/ ImageAborted

SpecAssets ==
  InitAssets /\ [][NextAssets]_vars

(***************************************************************************)
(* SpecLUT: lookups of two raw masks in a transition table.                *)
(***************************************************************************)

Styles ==
  {"terrain", "territory"}

\* A table and two raw masks to look up.
InitLUT ==
  /\ game = NewGame
  /\ renderer = NewRenderer(<<0, 0>>)
  /\ ui = NewCivUI
  /\ last = NoLast
  /\ \E style \in Styles, r1 \in 0..255, r2 \in 0..255 :
       query = [NoQuery EXCEPT !.style = style, !.r1 = r1, !.r2 = r2]

\* LUT[r1] and LUT[r2] of the table, read as $updateMapTile reads them,
\* and PRE.length; PRE[LUT[r1]] where r1 has an entry; and, as
\* preprocessTransitions reads the table, PRE[k1] and PRE[k2] for the
\* indices k1 = r1 % PRE.length and k2 = r2 % PRE.length, with LUT[PRE[k1]].
Lookup ==
  /\ ~query.done
  /\ LET table == TransitionsOf(query.style)
         n == Len(table.PRE)
         i1 == table.LUT[query.r1]
         k1 == query.r1 % n
         k2 == query.r2 % n
     IN  query' = [query EXCEPT !.i1 = i1,
                                !.i2 = table.LUT[query.r2],
                                !.n = n,
                                !.pre1 = IF i1 >= 0 THEN table.PRE[i1 + 1] ELSE 0 - 1,
                                !.k1 = k1,
                                !.k2 = k2,
                                !.preK1 = table.PRE[k1 + 1],
                                !.preK2 = table.PRE[k2 + 1],
                                !.lutK1 = table.LUT[table.PRE[k1 + 1]],
                                !.done = TRUE]
  /\ UNCHANGED <<game, renderer, ui, last>>

NextLUT ==
  Lookup

SpecLUT ==
  InitLUT /\ [][NextLUT]_vars

(***************************************************************************)
(* SpecLoop: the cell traversals of invalidateRect, $updateMapArea and      *)
(* $renderMapTerrain, one iteration of the inner loop per step.  `query`    *)
(* holds the loop variables: gx, gy (cell), dx, dy (pixel position), gx0,   *)
(* dx0 (what the inner loop restarts from), x1, y1 (where the loops end)    *)
(* and the number of steps taken.  The work done on a cell (bits, blits)    *)
(* does not feed back into the loop variables and is left to the operators  *)
(* above.                                                                   *)
(***************************************************************************)

\* Most steps of one traversal.
MaxSteps == 40

\* Maps whose grid is 1x1, 1x2, 2x1 and 3x1 cells.
LoopMaps ==
  {<<4, 4>>, <<8, 16>>, <<12, 4>>, <<20, 8>>}

LoopScenes ==
  {<<64, 64>>, <<300, 200>>, <<600, 600>>}

\* Scroll offsets of a world of w x h pixels.
LoopOrigins(w, h) ==
  {<<0, 0>>, <<100, 50>>, <<w - 1, h - 1>>}

LoopIdle ==
  [loop |-> "none", pc |-> "idle", gx |-> 0, gy |-> 0, dx |-> 0, dy |-> 0,
   gx0 |-> 0, dx0 |-> 0, x1 |-> 0, y1 |-> 0, steps |-> 0]

\* A plausible slip: the loop ends only when the position meets the end.
pastEnd_eq(d, end) ==
  d = end

\* `if (dx >= rectX1) break;`, `if (dy >= rectY1) break;`
pastEnd(d, end) ==
  d >= end

\* `if (++gx >= gridW) gx = 0;`
wrapNext(g, n) ==
  IF g + 1 >= n THEN 0 ELSE g + 1

\* $updateMapArea(x0, y0, x1, y1) up to its first cell.
updateMapAreaBegin(x0, y0, x1, y1) ==
  LET gridX0 == x0 \div gridPixels
      gridY0 == y0 \div gridPixels
  IN  [LoopIdle EXCEPT !.loop = "updateMapArea", !.pc = "run",
                       !.gx = gridX0, !.gy = gridY0,
                       !.dx = gridX0 * gridPixels - x0,
                       !.dy = gridY0 * gridPixels - y0,
                       !.gx0 = gridX0, !.dx0 = gridX0 * gridPixels - x0,
                       !.x1 = x1, !.y1 = y1]

\* One cell of $updateMapArea, then `Advance X` and, at the end of the row,
\* `Advance Y`.
updateMapAreaStep(q, gridW, gridH) ==
  IF ~pastEnd(q.dx + gridPixels, q.x1)
    THEN [q EXCEPT !.dx = @ + gridPixels, !.gx = wrapNext(@, gridW),
                   !.steps = @ + 1]
  ELSE IF ~pastEnd(q.dy + gridPixels, q.y1)
    THEN [q EXCEPT !.dy = @ + gridPixels, !.gy = wrapNext(@, gridH),
                   !.dx = q.dx0, !.gx = q.gx0, !.steps = @ + 1]
  ELSE [q EXCEPT !.pc = "done", !.steps = @ + 1]

\* $renderMapTerrain(ctx, cx, cy, x0, y0, x1, y1) up to its first cell.
renderMapTerrainBegin(cx, cy, x0, y0, x1, y1) ==
  LET gxInit == x0 \div gridPixels
      gyInit == y0 \div gridPixels
      dxInit == cx - x0 + gxInit * gridPixels
      dyInit == cy - y0 + gyInit * gridPixels
  IN  [LoopIdle EXCEPT !.loop = "renderMapTerrain", !.pc = "run",
                       !.gx = gxInit, !.gy = gyInit,
                       !.dx = dxInit, !.dy = dyInit,
                       !.gx0 = gxInit, !.dx0 = dxInit,
                       !.x1 = cx + (x1 - x0), !.y1 = cy + (y1 - y0)]

\* One blit of $renderMapTerrain, then the advance in x and, at the end of
\* the row, in y.
renderMapTerrainStep(q, gridW, gridH) ==
  IF ~pastEnd(q.dx + gridPixels, q.x1)
    THEN [q EXCEPT !.dx = @ + gridPixels, !.gx = wrapNext(@, gridW),
                   !.steps = @ + 1]
  ELSE IF ~pastEnd(q.dy + gridPixels, q.y1)
    THEN [q EXCEPT !.dy = @ + gridPixels, !.gy = wrapNext(@, gridH),
                   !.dx = q.dx0, !.gx = q.gx0, !.steps = @ + 1]
  ELSE [q EXCEPT !.pc = "done", !.steps = @ + 1]

\* invalidateRect(rx, ry, rw, rh) up to `for (var gy = dy0; ...`.
invalidateRectBegin(rx, ry, rw, rh, mw, mh) ==
  LET mx0 == IF rx - 1 < 0 \/ rx - 1 >= mw THEN repeat(rx - 1, mw) ELSE rx - 1
      my0 == IF ry - 1 < 0 \/ ry - 1 >= mh THEN repeat(ry - 1, mh) ELSE ry - 1
      dx0 == Shr(mx0, kGridShift)
      dy0 == Shr(my0, kGridShift)
  IN  [LoopIdle EXCEPT !.loop = "invalidateRect", !.pc = "run",
                       !.gx = dx0, !.gy = dy0, !.gx0 = dx0,
                       !.x1 = Shr(mx0 + rw + 1, kGridShift),
                       !.y1 = Shr(my0 + rh + 1, kGridShift)]

\* The two for loops of invalidateRect: the tests `gy <= dy1` and
\* `gx <= dx1`, and the body with `gx++`.
invalidateRectStep(q) ==
  IF q.gy > q.y1 THEN [q EXCEPT !.pc = "done", !.steps = @ + 1]
  ELSE IF q.gx > q.x1
    THEN [q EXCEPT !.gy = @ + 1, !.gx = q.gx0, !.steps = @ + 1]
  ELSE [q EXCEPT !.gx = @ + 1, !.steps = @ + 1]

\* A renderer attached to a game with a map, scrolled to an origin.
InitLoop ==
  \E size \in LoopMaps, scene \in LoopScenes :
    \E origin \in LoopOrigins(size[1] * tileSize, size[2] * tileSize) :
      /\ game = GridState(size, scene).game
      /\ renderer = [GridState(size, scene).renderer EXCEPT
                       !.worldX = origin[1], !.worldY = origin[2]]
      /\ ui = GridState(size, scene).ui
      /\ last = NoLast
      /\ query = LoopIdle

\* render() enters $updateMapArea.
BeginUpdateMapArea ==
  /\ query.pc = "idle"
  /\ query' = updateMapAreaBegin(renderer.worldX, renderer.worldY,
                                 renderer.worldX + renderer.sceneW,
                                 renderer.worldY + renderer.sceneH)
  /\ UNCHANGED <<game, renderer, ui, last>>

\* $renderMapArea enters $renderMapTerrain.
BeginRenderMapTerrain ==
  /\ query.pc = "idle"
  /\ query' = renderMapTerrainBegin(0, 0, renderer.worldX, renderer.worldY,
                                    renderer.worldX + renderer.sceneW,
                                    renderer.worldY + renderer.sceneH)
  /\ UNCHANGED <<game, renderer, ui, last>>

\* renderer.invalidateRect(rx, ry, rw, rh) enters its loops.
BeginInvalidateRect ==
  /\ query.pc = "idle"
  /\ \E xc \in AxisCases(game.w), yc \in AxisCases(game.h) :
       query' = invalidateRectBegin(xc[1], yc[1], xc[2], yc[2], game.w, game.h)
  /\ UNCHANGED <<game, renderer, ui, last>>

StepUpdateMapArea ==
  /\ query.pc = "run" /\ query.loop = "updateMapArea"
  /\ query.steps < MaxSteps
  /\ query' = updateMapAreaStep(query, renderer.gridW, renderer.gridH)
  /\ UNCHANGED <<game, renderer, ui, last>>

StepRenderMapTerrain ==
  /\ query.pc = "run" /\ query.loop = "renderMapTerrain"
  /\ query.steps < MaxSteps
  /\ query' = renderMapTerrainStep(query, renderer.gridW, renderer.gridH)
  /\ UNCHANGED <<game, renderer, ui, last>>

StepInvalidateRect ==
  /\ query.pc = "run" /\ query.loop = "invalidateRect"
  /\ query.steps < MaxSteps
  /\ query' = invalidateRectStep(query)
  /\ UNCHANGED <<game, renderer, ui, last>>

NextLoop ==
  \/ BeginUpdateMapArea
  \/ BeginRenderMapTerrain
  \/ BeginInvalidateRect
  \/ StepUpdateMapArea
  \/ StepRenderMapTerrain
  \/ StepInvalidateRect

\* A loop that was entered keeps running: JavaScript runs a call to its
\* end.
SpecLoop ==
  InitLoop /\ [][NextLoop]_vars /\ WF_vars(NextLoop)

(***************************************************************************)
(* SpecTile: $updateMapTile and the object pass applied to one tile of a    *)
(* map on which two players have founded cities.  `query` holds the tile    *)
(* asked for, the RendererTile computed and the sprites drawn.              *)
(***************************************************************************)

TileMaps ==
  {<<4, 4>>, <<6, 5>>}

\* Cities founded in turn, each <<player, x, y>>.
CityLists ==
  {<< <<0, 1, 1>> >>, << <<0, 2, 2>> >>, << <<1, 0, 0>> >>,
   << <<0, 1, 1>>, <<1, 3, 2>> >>, << <<0, 0, 0>>, <<1, 3, 3>> >>,
   << <<1, 2, 1>>, <<0, 2, 3>> >>}

NoTileQuery ==
  [done |-> FALSE, x |-> 0, y |-> 0, tile |-> NewRendererTile, draws |-> {}]

RECURSIVE foundCities(_, _)
\* game.createCity(...) for each city of the list.
foundCities(S, list) ==
  IF Len(list) = 0 \/ S.threw THEN S
  ELSE foundCities(Game_createCity(S, Head(list)[1], Head(list)[2], Head(list)[3]),
                   Tail(list))

\* The state after setRenderer, createMap, two createPlayer and the
\* createCity calls.
TileState(size, list) ==
  foundCities(Game_createPlayer(Game_createPlayer(GridState(size, <<64, 64>>))), list)

InitTile ==
  \E size \in TileMaps, list \in CityLists :
    /\ game = TileState(size, list).game
    /\ renderer = TileState(size, list).renderer
    /\ ui = TileState(size, list).ui
    /\ last = NoLast
    /\ query = NoTileQuery

\* this.$updateMapTile(x, y, mapTiles[i], rendererTiles[i]) as $updateMapRect
\* calls it, then the tile's turn in $renderMapObjects.
RecomputeTile ==
  /\ ~query.done
  /\ \E x \in 0..(game.w - 1), y \in 0..(game.h - 1) :
       LET drawn(rTile) ==
             [done |-> TRUE, x |-> x, y |-> y, tile |-> rTile,
              draws |-> renderMapObjectsTile(game.tiles[y * game.w + x], rTile)]
       IN  query' = drawn(updateMapTile(game, renderer.playerId, x, y, y * game.w + x))
  /\ UNCHANGED <<game, renderer, ui, last>>

NextTile ==
  RecomputeTile

SpecTile ==
  InitTile /\ [][NextTile]_vars

(***************************************************************************)
(* SpecTerrain: $updateMapTile and the object pass applied to one tile of a *)
(* 4x4 map painted with terrains, rivers, roads and railroads, seen by no   *)
(* player or by a player who has uncovered part of it.                      *)
(***************************************************************************)

\* Terrain ids of the 16 tiles, row by row (0 desert, 1 and 9 two further
\* land terrains, 2 grassland, 10 ocean).
TerrainLayouts ==
  {<<10, 10, 10, 10,  10, 10, 10, 10,  10, 10, 10, 10,  10, 10, 10, 10>>,
   <<10, 10, 10, 10,  10, 0, 10, 10,  10, 10, 10, 10,  10, 10, 10, 10>>,
   <<10, 10, 2, 2,  10, 0, 2, 1,  0, 0, 9, 1,  10, 2, 9, 10>>,
   <<2, 2, 2, 2,  2, 0, 2, 2,  2, 2, 1, 2,  2, 2, 2, 9>>,
   <<0, 0, 1, 1,  0, 10, 1, 1,  2, 2, 9, 9,  2, 2, 9, 10>>}

\* Modifier bits of the 16 tiles, row by row.
ModifierLayouts ==
  {<<0, 0, 0, 0,  0, 0, 0, 0,  0, 0, 0, 0,  0, 0, 0, 0>>,
   <<1, 1, 0, 0,  0, 1, 0, 0,  0, 1, 1, 0,  0, 0, 0, 0>>,
   <<16, 16, 0, 0,  0, 48, 32, 0,  16, 0, 32, 32,  0, 16, 0, 48>>,
   <<17, 64, 33, 0,  64, 49, 0, 1,  0, 16, 16, 16,  32, 32, 0, 0>>,
   <<16, 16, 16, 0,  16, 16, 16, 0,  16, 16, 48, 32,  0, 0, 32, 48>>}

\* Who views the map: nobody, or player 0 after uncovering the tiles listed.
Viewers ==
  {[viewer |-> FALSE, tiles |-> << >>],
   [viewer |-> TRUE, tiles |-> << >>],
   [viewer |-> TRUE, tiles |-> << <<1, 1>>, <<2, 1>>, <<1, 2>>, <<2, 2>> >>],
   [viewer |-> TRUE, tiles |-> << <<0, 0>>, <<1, 0>>, <<2, 0>>, <<3, 0>>, <<0, 1>>,
                                 <<1, 1>>, <<2, 1>>, <<3, 1>>, <<3, 3>>, <<0, 3>> >>]}

RECURSIVE paintTiles(_, _, _, _)
\* map.setTileIdAndModifiers(x, y, id, modifiers) for every tile from i on.
paintTiles(S, i, ids, mods) ==
  IF S.threw \/ i >= Len(ids) THEN S
  ELSE paintTiles(
         GameMap_setTileIdAndModifiers(S, i % S.game.w, i \div S.game.w,
                                       ids[i + 1], mods[i + 1]),
         i + 1, ids, mods)

RECURSIVE uncoverTiles(_, _)
\* players[0].uncoverTile(x, y) for each tile of the list.
uncoverTiles(S, list) ==
  IF S.threw \/ Len(list) = 0 THEN S
  ELSE uncoverTiles(GamePlayer_uncoverTile(S, 0, Head(list)[1], Head(list)[2]),
                    Tail(list))

\* The state after setRenderer, createMap(4, 4), createPlayer, the tile
\* edits, the uncoverTile calls and, for a viewer, renderer.playerId = 0.
TerrainState(ids, mods, v) ==
  LET seen(S) == IF v.viewer THEN Renderer_setPlayerId(S, 0) ELSE S
  IN  seen(uncoverTiles(
             paintTiles(Game_createPlayer(GridState(<<4, 4>>, <<64, 64>>)),
                        0, ids, mods),
             v.tiles))

InitTerrain ==
  \E ids \in TerrainLayouts, mods \in ModifierLayouts, v \in Viewers :
    /\ game = TerrainState(ids, mods, v).game
    /\ renderer = TerrainState(ids, mods, v).renderer
    /\ ui = TerrainState(ids, mods, v).ui
    /\ last = NoLast
    /\ query = NoTileQuery

NextTerrain ==
  RecomputeTile

SpecTerrain ==
  InitTerrain /\ [][NextTerrain]_vars

(***************************************************************************)
(* SpecRoads: simplifyRoadEdges and the road pass of $renderMapObjects      *)
(* applied to a tile with a road, a railroad or both.  `query` holds the    *)
(* tile's modifiers and roadEdges, and once drawn the simplified road mask, *)
(* that mask simplified again and the sprites in the order drawn.           *)
(***************************************************************************)

\* Railroad masks of the tiles drawn.
RailMasks ==
  {0, 1, 3, 9, 16, 144, 165, 255}

NoRoadQuery ==
  [done |-> FALSE, modifiers |-> 0, roadEdges |-> 0,
   simplified |-> 0, again |-> 0, draws |-> << >>]

\* A tile with a road has any mask of road neighbours, a tile with a
\* railroad one of the railroad masks; the other byte is 0.
InitRoads ==
  /\ game = NewGame
  /\ renderer = NewRenderer(<<0, 0>>)
  /\ ui = NewCivUI
  /\ last = NoLast
  /\ \E modifiers \in {kRoad, kRailroad, kRoad + kRailroad} :
       \E road \in (IF BitAnd(modifiers, kRoad) # 0 THEN 0..255 ELSE {0}),
          rail \in (IF BitAnd(modifiers, kRailroad) # 0 THEN RailMasks ELSE {0}) :
         query = [NoRoadQuery EXCEPT !.modifiers = modifiers,
                                     !.roadEdges = road + 256 * rail]

\* The tile's turn in the road pass.
DrawRoads ==
  /\ ~query.done
  /\ LET drawn(once) ==
           [query EXCEPT !.done = TRUE, !.simplified = once,
                         !.again = simplifyRoadEdges(once),
                         !.draws = roadSprites(query.modifiers, query.roadEdges)]
     IN  query' = drawn(simplifyRoadEdges(query.roadEdges % 256))
  /\ UNCHANGED <<game, renderer, ui, last>>

NextRoads ==
  DrawRoads

SpecRoads ==
  InitRoads /\ [][NextRoads]_vars

(***************************************************************************)
(* SpecDraw: render() on an 8x4 map with terrains, improvements, cities,    *)
(* units and resources, with and without a viewing player and the debug     *)
(* overlay.  `query` holds the renderer's debug mode and the tiles with a   *)
(* resource, and after render() the drawing calls in the order made: each   *)
(* the pass it belongs to, its place on the scene and its sprite.           *)
(***************************************************************************)

\* Cities founded and units created, each <<player, x, y>>, and the tiles
\* the map generator gave a resource.
Casts ==
  {[cities |-> << >>, units |-> << >>, resources |-> {}],
   [cities |-> << <<1, 0, 0>> >>,
    units |-> << <<1, 0, 0>>, <<1, 2, 1>>, <<1, 2, 1>>, <<1, 3, 0>> >>,
    resources |-> {0, 5, 10}]}

\* Renderer.debug: off, deepness, continent.
DebugModes ==
  {0, 1, 2}

NoDrawQuery ==
  [done |-> FALSE, debug |-> 0, resources |-> {}, threw |-> FALSE, log |-> << >>]

RECURSIVE createUnits(_, _)
\* game.createUnit(...) for each unit of the list.
createUnits(S, list) ==
  IF Len(list) = 0 \/ S.threw THEN S
  ELSE createUnits(Game_createUnit(S, Head(list)[1], Head(list)[2], Head(list)[3]),
                   Tail(list))

\* The state after setRenderer with a 256x64 scene, createMap(8, 4), two
\* createPlayer, the tile edits of the two upper rows, the cities and units
\* of the second player, the uncoverTile calls of the first and, for a
\* viewer, renderer.playerId = 0.
DrawState(ids, mods, v, cast) ==
  LET seen(S) == IF v.viewer THEN Renderer_setPlayerId(S, 0) ELSE S
  IN  seen(uncoverTiles(
             createUnits(
               foundCities(
                 paintTiles(
                   Game_createPlayer(Game_createPlayer(GridState(<<8, 4>>, <<256, 64>>))),
                   0, ids, mods),
                 cast.cities),
               cast.units),
             v.tiles))

InitDraw ==
  \E ids \in TerrainLayouts, mods \in ModifierLayouts, v \in Viewers, cast \in Casts :
    /\ game = DrawState(ids, mods, v, cast).game
    /\ renderer = DrawState(ids, mods, v, cast).renderer
    /\ ui = DrawState(ids, mods, v, cast).ui
    /\ last = NoLast
    /\ \E debug \in DebugModes :
         query = [NoDrawQuery EXCEPT !.debug = debug, !.resources = cast.resources]

\* One drawing call: the pass that made it, the scene position it draws at
\* and the sprite.
Drawn(pass, dx, dy, d) ==
  [pass |-> pass, dx |-> dx, dy |-> dy, kind |-> d.kind, sx |-> d.sx, sy |-> d.sy]

RECURSIVE terrainBlits(_, _, _, _)
\* $renderMapTerrain: the block of each cell the loops reach, blitted.
terrainBlits(log, q, gridW, gridH) ==
  IF q.pc # "run" THEN log
  ELSE terrainBlits(Append(log, Drawn("terrain", q.dx, q.dy, Draw("block", q.gx, q.gy))),
                    renderMapTerrainStep(q, gridW, gridH), gridW, gridH)

RECURSIVE visitCols(_, _, _, _, _, _, _)
\* The inner loop of $renderMapObjects and of $renderDebugObjects: the
\* tiles of one row, each with its place on the scene.
visitCols(visits, tx, dx, ty, dy, x1, mapW) ==
  LET seen == Append(visits, [tile |-> ty * mapW + tx, dx |-> dx, dy |-> dy])
  IN  IF dx + tileSize >= x1 THEN seen
      ELSE visitCols(seen, IF tx + 1 >= mapW THEN 0 ELSE tx + 1, dx + tileSize,
                     ty, dy, x1, mapW)

RECURSIVE visitRows(_, _, _, _, _, _, _, _, _)
\* The outer loop.
visitRows(visits, ty, dy, txInit, dxInit, x1, y1, mapW, mapH) ==
  LET seen == visitCols(visits, txInit, dxInit, ty, dy, x1, mapW)
  IN  IF dy + tileSize >= y1 THEN seen
      ELSE visitRows(seen, IF ty + 1 >= mapH THEN 0 ELSE ty + 1, dy + tileSize,
                     txInit, dxInit, x1, y1, mapW, mapH)

\* The tiles $renderMapObjects(ctx, cx, cy, x0, y0, x1, y1) visits, in order.
tileVisits(S, cx, cy, x0, y0, x1, y1) ==
  LET txInit == x0 \div tileSize
      tyInit == y0 \div tileSize
  IN  visitRows(<< >>, tyInit, cy - y0 + tyInit * tileSize,
                txInit, cx - x0 + txInit * tileSize,
                cx + (x1 - x0), cy + (y1 - y0), S.game.w, S.game.h)

\* What one pass draws for the tile of a visit: $renderMapObjects the
\* sprites of the tile, $renderDebugObjects one text for a tile that is not
\* fully covered.
passDraws(pass, S, v, debug, resources) ==
  LET mTile == S.game.tiles[v.tile]
      rTile == S.renderer.tiles[v.tile]
      draws == IF pass = "objects"
                 THEN tileSprites(mTile, rTile, IF v.tile \in resources THEN 1 ELSE 0 - 1)
               ELSE IF rTile.coverEdges # 256 THEN <<Draw("debug", debug, 0)>>
               ELSE << >>
  IN  [k \in DOMAIN draws |-> Drawn(pass, v.dx, v.dy, draws[k])]

RECURSIVE tilePass(_, _, _, _, _, _, _)
\* One pass over the visits from the k-th on.  R is [log, threw]; a visit
\* of a tile without RendererTile throws.
tilePass(R, pass, visits, k, S, debug, resources) ==
  IF R.threw \/ k > Len(visits) THEN R
  ELSE IF visits[k].tile \notin DOMAIN S.renderer.tiles
            \/ visits[k].tile \notin DOMAIN S.game.tiles
    THEN [R EXCEPT !.threw = TRUE]
  ELSE tilePass([R EXCEPT !.log = @ \o passDraws(pass, S, visits[k], debug, resources)],
                pass, visits, k + 1, S, debug, resources)

\* if (this.debug) this.$renderDebugObjects(...)
debugPass(R, visits, S, debug, resources) ==
  IF debug # 0 THEN tilePass(R, "debug", visits, 1, S, debug, resources) ELSE R

\* Renderer.$renderMapArea(ctx, cx, cy, x0, y0, x1, y1): the terrain, the
\* objects, then the debug overlay when Renderer.debug is not 0.
renderMapArea(S, cx, cy, x0, y0, x1, y1, debug, resources) ==
  LET visits == tileVisits(S, cx, cy, x0, y0, x1, y1)
      blits == terrainBlits(<< >>, renderMapTerrainBegin(cx, cy, x0, y0, x1, y1),
                            S.renderer.gridW, S.renderer.gridH)
  IN  debugPass(tilePass([log |-> blits, threw |-> FALSE], "objects", visits, 1,
                         S, debug, resources),
                visits, S, debug, resources)

\* renderer.render(): the visible dirty cells recomputed, then the scene
\* drawn.
RenderScene ==
  /\ ~query.done
  /\ LET shown(S1) ==
           LET R == IF S1.threw THEN [log |-> << >>, threw |-> TRUE]
                    ELSE renderMapArea(S1, 0, 0, renderer.worldX, renderer.worldY,
                                       renderer.worldX + renderer.sceneW,
                                       renderer.worldY + renderer.sceneH,
                                       query.debug, query.resources)
           IN  /\ game' = S1.game
               /\ renderer' = S1.renderer
               /\ ui' = S1.ui
               /\ last' = [op |-> "render", args |-> << >>, pre |-> PreOf(CurS),
                           calls |-> S1.calls, threw |-> S1.threw \/ R.threw,
                           changedTiles |-> ChangedTiles(CurS, S1),
                           changedFog |-> ChangedFog(CurS, S1),
                           cleanFrames |-> last.cleanFrames]
               /\ query' = [query EXCEPT !.done = TRUE, !.threw = R.threw,
                                         !.log = R.log]
     IN  shown(Renderer_render(CurS))

NextDraw ==
  RenderScene

SpecDraw ==
  InitDraw /\ [][NextDraw]_vars

(***************************************************************************)
(* SpecFog: a renderer that views the map as a player who uncovers tiles    *)
(* between render() calls.                                                  *)
(***************************************************************************)

FogMaps ==
  {<<4, 4>>, <<12, 4>>}

FogTiles ==
  {<<0, 0>>, <<1, 1>>, <<3, 3>>, <<2, 0>>}

\* The state after setRenderer, createMap, createPlayer and
\* renderer.playerId = 0.
FogState(size) ==
  Renderer_setPlayerId(Game_createPlayer(GridState(size, <<300, 200>>)), 0)

InitFog ==
  \E size \in FogMaps :
    /\ game = FogState(size).game
    /\ renderer = FogState(size).renderer
    /\ ui = FogState(size).ui
    /\ last = NoLast
    /\ query = NoQuery

\* player.uncoverTile(x, y) by the player viewed
UncoverAt ==
  \E t \in FogTiles :
    Commit("uncoverTile", <<0, t[1], t[2]>>,
           GamePlayer_uncoverTile(CurS, 0, t[1], t[2]))

NextFog ==
  \/ UncoverAt
  \/ InvalidateAll
  \/ Render

SpecFog ==
  InitFog /\ [][NextFog]_vars

(***************************************************************************)
(* SpecView: render() at scroll offsets a caller wrote into worldX and      *)
(* worldY, inside and outside the world.                                    *)
(***************************************************************************)

ViewMaps ==
  {<<4, 4>>, <<8, 16>>}

\* Scroll offsets for a world of w x h pixels: the origin, the last pixel,
\* one below zero and one past the end on each axis.
ViewOrigins(w, h) ==
  {<<0, 0>>, <<w - 1, h - 1>>, <<0 - 1, 0>>, <<0, 0 - 1>>, <<w, 0>>, <<0, h>>}

InitView ==
  \E size \in ViewMaps :
    /\ game = GridState(size, <<300, 200>>).game
    /\ renderer = GridState(size, <<300, 200>>).renderer
    /\ ui = GridState(size, <<300, 200>>).ui
    /\ last = NoLast
    /\ query = NoQuery

\* renderer.worldX = x; renderer.worldY = y
Scroll ==
  \E o \in ViewOrigins(renderer.worldW, renderer.worldH) :
    Commit("scroll", o, [CurS EXCEPT !.renderer.worldX = o[1],
                                     !.renderer.worldY = o[2]])

NextView ==
  \/ Scroll
  \/ SetTileId
  \/ InvalidateAll
  \/ Render

SpecView ==
  InitView /\ [][NextView]_vars

(***************************************************************************)
(* SpecAtlas: RenderUtils.createAtlasIndex on small canvases.  A canvas is  *)
(* [width, height, alpha], alpha the alpha byte of each pixel, row by row;  *)
(* `query` holds the canvas, the outcome once the index was built, and the  *)
(* transition queued against the asset: the square asked for, the index the *)
(* asset had then, and the list $addTransition pushed to.                   *)
(***************************************************************************)

\* The square size the index is built for (the code passes 32).
AtlasSq == 2

\* Canvas sizes: multiples of the square size in one row, one column, and
\* sizes that are no multiple.
AtlasSizes ==
  {<<2, 2>>, <<4, 2>>, <<2, 4>>, <<3, 2>>, <<2, 3>>, <<3, 3>>}

LeastOf(S) ==
  CHOOSE m \in S : \A e \in S : m <= e

GreatestOf(S) ==
  CHOOSE m \in S : \A e \in S : m >= e

\* The four numbers pushed for the square (tx, ty): the bounding box of the
\* pixels with a non-zero alpha among those the two inner loops read, which
\* start at dPtr = (ty * bw + tx * sqSize) * 4 + 3.
atlasCell(canvas, sqSize, tx, ty) ==
  LET bw == canvas.width
      dOff == ty * bw + tx * sqSize
      seen == {p \in (0..(sqSize - 1)) \X (0..(sqSize - 1)) :
                 canvas.alpha[dOff + p[2] * bw + p[1]] # 0}
      xMin == IF seen = {} THEN sqSize ELSE LeastOf({p[1] : p \in seen})
      yMin == IF seen = {} THEN sqSize ELSE LeastOf({p[2] : p \in seen})
      xMax == IF seen = {} THEN 0 ELSE GreatestOf({p[1] : p \in seen})
      yMax == IF seen = {} THEN 0 ELSE GreatestOf({p[2] : p \in seen})
  IN  IF xMin = sqSize \/ yMin = sqSize THEN <<0, 0, 0, 0>>
      ELSE <<xMin, yMin, xMax - xMin + 1, yMax - yMin + 1>>

RECURSIVE atlasCells(_, _, _, _)
\* The index as the loops over ty and tx push it, from square n on.
atlasCells(canvas, sqSize, n, index) ==
  LET tw == canvas.width \div sqSize
      th == canvas.height \div sqSize
  IN  IF n >= tw * th \/ Len(index) > 4 * n THEN index
      ELSE atlasCells(canvas, sqSize, n + 1,
                      index \o atlasCell(canvas, sqSize, n % tw, n \div tw))

\* RenderUtils.createAtlasIndex(canvas, sqSize): FAILED when the width or
\* the height is no multiple of sqSize, else the index.
createAtlasIndex(canvas, sqSize) ==
  IF canvas.width % sqSize # 0 \/ canvas.height % sqSize # 0
    THEN [failed |-> TRUE, index |-> << >>]
    ELSE [failed |-> FALSE, index |-> atlasCells(canvas, sqSize, 0, << >>)]

NoAtlasQuery ==
  [canvas |-> [width |-> 0, height |-> 0, alpha |-> << >>],
   done |-> FALSE, failed |-> FALSE, index |-> << >>,
   idx |-> 0, seen |-> << >>, queued |-> << >>]

\* An image handed to AssetStore.update for an asset of type "BlendMap".
InitAtlas ==
  /\ game = NewGame
  /\ renderer = NewRenderer(<<0, 0>>)
  /\ ui = NewCivUI
  /\ last = NoLast
  /\ \E size \in AtlasSizes :
       \E alpha \in [0..(size[1] * size[2] - 1) -> {0, 255}] :
         query = [NoAtlasQuery EXCEPT
                    !.canvas = [width |-> size[1], height |-> size[2],
                                alpha |-> alpha]]

\* assetStore.update(id, data): asset.index = createAtlasIndex(data, sqSize)
UpdateAsset ==
  /\ ~query.done
  /\ LET built(r) == [query EXCEPT !.done = TRUE, !.failed = r.failed,
                                   !.index = r.index]
     IN  query' = built(createAtlasIndex(query.canvas, AtlasSq))
  /\ UNCHANGED <<game, renderer, ui, last>>

\* this.$addTransition(transitions, tex, msk, idx, 32) with the asset as the
\* blend map, before or after its image arrived; idx a square of the atlas.
AddTransition ==
  /\ query.queued = << >>
  /\ \E idx \in 0..(IF query.index = << >> THEN 1 ELSE Len(query.index) \div 4 - 1) :
       query' = [query EXCEPT
                   !.idx = idx, !.seen = query.index,
                   !.queued = pushTransition(query.index, << >>, AssetTextureOcean,
                                             AssetBlendMapCoast, idx, tileSize)]
  /\ UNCHANGED <<game, renderer, ui, last>>

NextAtlas ==
  \/ UpdateAsset
  \/ AddTransition

SpecAtlas ==
  InitAtlas /\ [][NextAtlas]_vars

(***************************************************************************)
(* SpecLife: the renderer attached to and detached from the game, with      *)
(* maps created, invalidated and scrolled in between.                       *)
(***************************************************************************)

\* Maps whose grid has exactly 32 cells (4 x 8), and 33 (11 x 3).
WideMaps ==
  {<<32, 64>>, <<88, 24>>}

\* game.createMap(w, h) for a large map
CreateWideMap ==
  \E size \in {z \in WideMaps : z[1] > game.w} :
    Commit("createMap", size, Game_createMap(CurS, size[1], size[2]))

\* game.resetRenderer() of a game that has a renderer
ResetRenderer ==
  /\ game.renderer
  /\ Commit("resetRenderer", << >>, Game_resetRenderer(CurS))

NextLife ==
  \/ SetRenderer
  \/ ResetRenderer
  \/ SetUI
  \/ CreateMap
  \/ CreateWideMap
  \/ InvalidateAll
  \/ Scroll

SpecLife ==
  Init /\ [][NextLife]_vars

(***************************************************************************)
(* What the specification expects of an invalidation, in map terms.        *)
(***************************************************************************)

\* The tiles of the rectangle (x, y, w, h) expanded by one tile in every
\* direction and wrapped modulo the map size mw x mh.
ExpandedTiles(x, y, w, h, mw, mh) ==
  {<<(x + i) % mw, (y + j) % mh>> : i \in (0 - 1)..w, j \in (0 - 1)..h}

\* The offset of the coarse cell that contains tile t, on a grid gw wide.
CellOf(t, gw) ==
  (t[2] \div kGridSize) * gw + (t[1] \div kGridSize)

\* The cells that overlap the expanded, wrapped rectangle.
ExpandedCells(x, y, w, h) ==
  {CellOf(t, renderer.gridW) : t \in ExpandedTiles(x, y, w, h, game.w, game.h)}

\* The cells of the grid.
GridCells ==
  0..(renderer.gridW * renderer.gridH - 1)

\* Cell c is dirty in both bitsets.
Dirty(c) ==
  TestBit(renderer.tilesDirty, c) /\ TestBit(renderer.blocksDirty, c)

\* Cell c was dirty in both bitsets before the last operation.
WasDirty(c) ==
  TestBit(last.pre.tilesDirty, c) /\ TestBit(last.pre.blocksDirty, c)

\* The last operation was a completed renderer.invalidateRect.
AfterInvalidateRect ==
  last.op = "Renderer.invalidateRect" /\ ~last.threw

\* The state the last invalidation started in, as far as an invalidation
\* reads it.
PreS ==
  [CurS EXCEPT !.renderer.tilesDirty = last.pre.tilesDirty,
               !.renderer.blocksDirty = last.pre.blocksDirty]

\* Two program states have the same dirty bitsets.
SameBits(S1, S2) ==
  /\ S1.renderer.tilesDirty = S2.renderer.tilesDirty
  /\ S1.renderer.blocksDirty = S2.renderer.blocksDirty

(***************************************************************************)
(* Claims about the dirty grid (SpecGrid).                                 *)
(***************************************************************************)

\* C2: after invalidateRect(x, y, w, h) with (x, y) on the map, 1 <= w <= W
\* and 1 <= h <= H, the cell of every tile of the rectangle expanded by one
\* tile and wrapped modulo W and H is dirty in both bitsets.
NoUnderInvalidation ==
  (/\ AfterInvalidateRect
   /\ last.args[1] < game.w /\ last.args[2] < game.h
   /\ last.args[3] >= 1 /\ last.args[3] <= game.w
   /\ last.args[4] >= 1 /\ last.args[4] <= game.h)
  => \A c \in ExpandedCells(last.args[1], last.args[2], last.args[3], last.args[4]) :
       Dirty(c)

\* C3: invalidateRect called again with the same arguments leaves both
\* bitsets as the first call left them, whatever they were before.
InvalidateRectIdempotent ==
  AfterInvalidateRect
  => SameBits(Renderer_invalidateRect(CurS, last.args[1], last.args[2],
                                      last.args[3], last.args[4]), CurS)

\* C3 witness: an invalidateRect that dirtied a clean cell.
InvalidateRectIdempotentWitness ==
  /\ AfterInvalidateRect
  /\ \E c \in GridCells : Dirty(c) /\ ~WasDirty(c)

\* C4: invalidateRect on a rectangle that straddles the right edge of the
\* map leaves the bitsets that the two calls on its parts left and right of
\* the edge leave, from the same starting bitsets.
StraddleEqualsSplit ==
  (/\ AfterInvalidateRect
   /\ last.args[1] >= 1 /\ last.args[1] < game.w
   /\ last.args[3] <= game.w
   /\ last.args[1] + last.args[3] > game.w)
  => LET x == last.args[1]
         y == last.args[2]
         w == last.args[3]
         h == last.args[4]
         left == Renderer_invalidateRect(PreS, x, y, game.w - x, h)
         both == Renderer_invalidateRect(left, 0, y, w - (game.w - x), h)
     IN  SameBits(both, CurS)

\* C4 witness: a straddling invalidateRect on a grid of several columns
\* that dirtied a clean cell.
StraddleEqualsSplitWitness ==
  /\ AfterInvalidateRect
  /\ last.args[1] >= 1 /\ last.args[1] < game.w
  /\ last.args[3] <= game.w
  /\ last.args[1] + last.args[3] > game.w
  /\ renderer.gridW > 1
  /\ \E c \in GridCells : Dirty(c) /\ ~WasDirty(c)

\* C5: invalidateRect changes the bits of no cell outside the expanded,
\* wrapped rectangle, also for a rectangle as wide or as high as the map or
\* larger.
NoOverInvalidation ==
  AfterInvalidateRect
  => \A c \in GridCells \ ExpandedCells(last.args[1], last.args[2],
                                        last.args[3], last.args[4]) :
       /\ TestBit(renderer.tilesDirty, c) = TestBit(last.pre.tilesDirty, c)
       /\ TestBit(renderer.blocksDirty, c) = TestBit(last.pre.blocksDirty, c)

\* C6: after invalidateAll() every cell of the grid is dirty in both
\* bitsets.
InvalidateAllCoversGrid ==
  (last.op = "Renderer.invalidateAll" /\ ~last.threw)
  => \A c \in GridCells : Dirty(c)

\* C6 witness: an invalidateAll on a grid of several cells, some of them
\* clean before.
InvalidateAllCoversGridWitness ==
  /\ last.op = "Renderer.invalidateAll" /\ ~last.threw
  /\ renderer.gridW * renderer.gridH > 1
  /\ \E c \in GridCells : ~WasDirty(c)
  /\ \A c \in GridCells : Dirty(c)

(***************************************************************************)
(* Claims about the transition tables (SpecLUT).                           *)
(***************************************************************************)

\* The side bits and the corner bits of a raw mask.
sideBits(r) ==
  r % 16
cornerBits(r) ==
  r - (r % 16)

\* effective(sideBits): the corner bits that matter beside these sides.
effective(style, side) ==
  SidesOf(style)[side + 1]

\* The two raw masks looked up agree on the sides and on the corners that
\* matter.
SameCanonical ==
  /\ sideBits(query.r1) = sideBits(query.r2)
  /\ BitAnd(cornerBits(query.r1), effective(query.style, sideBits(query.r1)))
       = BitAnd(cornerBits(query.r2), effective(query.style, sideBits(query.r1)))

\* C10: two raw masks with the same side bits and the same corner bits
\* under the effective mask of those sides have the same LUT entry, in both
\* tables.
DedupCorrect ==
  (query.done /\ SameCanonical) => query.i1 = query.i2

\* C10 witness: two different raw masks share a slot of the table.
DedupCorrectWitness ==
  /\ query.done /\ SameCanonical
  /\ query.r1 # query.r2
  /\ query.i1 = query.i2 /\ query.i1 >= 0

\* C11 as stated: the canonical list PRE of the terrain table has at most
\* 16 entries.
TerrainPreAtMost16 ==
  (query.done /\ query.style = "terrain") => query.n <= 16

\* C11, amended: the canonical list PRE of the terrain table has exactly 46
\* entries.
TerrainPreIs46 ==
  (query.done /\ query.style = "terrain") => query.n = 46

\* C11 witness: a lookup in the terrain table, whose PRE is longer than 16.
TerrainPreIs46Witness ==
  query.done /\ query.style = "terrain" /\ query.n > 16

\* C12: for both tables and every raw mask in 0..255, those without corner
\* bits included, LUT[raw] is an index into PRE.
LutTotal ==
  query.done => (query.i1 >= 0 /\ query.i1 < query.n)

\* C13: every traversal that was entered (invalidateRect, $updateMapArea,
\* $renderMapTerrain) ends, grids one cell wide or high included.
LoopsTerminate ==
  (query.pc = "run") ~> (query.pc = "done")

\* C13 witness: $updateMapArea has ended after wrapping several times
\* around a grid that is one cell wide.
LoopsTerminateWitness ==
  /\ query.pc = "done" /\ query.loop = "updateMapArea"
  /\ renderer.gridW = 1 /\ renderer.gridH > 1
  /\ query.steps > 4

\* The edge flag of the neighbour at offset (dx, dy).
EdgeAt(dx, dy) ==
  CASE dx = 0 - 1 /\ dy = 0 - 1 -> EdgeTopLeft
    [] dx = 0     /\ dy = 0 - 1 -> EdgeTop
    [] dx = 1     /\ dy = 0 - 1 -> EdgeTopRight
    [] dx = 0 - 1 /\ dy = 0     -> EdgeLeft
    [] dx = 1     /\ dy = 0     -> EdgeRight
    [] dx = 0 - 1 /\ dy = 1     -> EdgeBottomLeft
    [] dx = 0     /\ dy = 1     -> EdgeBottom
    [] dx = 1     /\ dy = 1     -> EdgeBottomRight

NeighborOffsets ==
  {d \in {0 - 1, 0, 1} \X {0 - 1, 0, 1} : d # <<0, 0>>}

\* The owner of the tile at (x, y) of a map that wraps around.
OwnerAt(x, y) ==
  game.tiles[((y + game.h) % game.h) * game.w + ((x + game.w) % game.w)].territory

\* The offsets of the neighbours of (x, y) that have the owner of (x, y).
SameOwnerOffsets(x, y) ==
  {d \in NeighborOffsets : OwnerAt(x + d[1], y + d[2]) = OwnerAt(x, y)}

\* C14: the territory mask computed for a tile has the bit of each neighbour
\* (wrapped) that has the tile's owner, and is 0 for a tile without owner;
\* a tile whose 8 neighbours have its owner has mask 0xFF and gets no
\* territory sprite.
TerritoryMask ==
  query.done =>
    /\ query.tile.territoryEdges =
         (IF OwnerAt(query.x, query.y) = 0 - 1 THEN 0
          ELSE SumOf({EdgeAt(d[1], d[2]) : d \in SameOwnerOffsets(query.x, query.y)}))
    /\ (OwnerAt(query.x, query.y) # 0 - 1
          /\ SameOwnerOffsets(query.x, query.y) = NeighborOffsets)
         => /\ query.tile.territoryEdges = 255
            /\ \A d \in query.draws : d.kind # "territory"

\* C14 witness: a tile of one player ringed by that player's tiles, next to
\* the other player's territory, has been recomputed.
TerritoryMaskWitness ==
  /\ query.done
  /\ OwnerAt(query.x, query.y) # 0 - 1
  /\ SameOwnerOffsets(query.x, query.y) = NeighborOffsets
  /\ \E i \in DOMAIN game.tiles :
       game.tiles[i].territory \notin {0 - 1, OwnerAt(query.x, query.y)}

\* What the block canvas holds for tile t.
BlockContent(r, t) ==
  r.pixels[CellOf(t, r.gridW)][<<t[1] % kGridSize, t[2] % kGridSize>>]

\* C15: a render pass draws, for a tile whose coverEdges is 256, the
\* full-fog sprite alone in the object pass and nothing in the
\* terrain-cache pass.
FoggedDrawsOnlyFog ==
  [][(last'.op = "render" /\ ~last'.threw) =>
       \A t \in (0..(game.w - 1)) \X (0..(game.h - 1)) :
         LET i == t[2] * game.w + t[1]
         IN  (i \in DOMAIN renderer'.tiles /\ renderer'.tiles[i].coverEdges = 256) =>
               /\ renderMapObjectsTile(game'.tiles[i], renderer'.tiles[i])
                    = {Draw("cover", 0, 0)}
               /\ BlockContent(renderer', t) = BlockContent(renderer, t)]_vars

\* The scroll offset lies outside [0, worldW) x [0, worldH).
OutsideWorld(r) ==
  \/ r.worldX < 0 \/ r.worldX >= r.worldW
  \/ r.worldY < 0 \/ r.worldY >= r.worldH

\* C16: render() of a world with a map fails whenever the scroll offset is
\* outside the world, past the end or below zero, and then has changed
\* neither bitset nor any RendererTile.
RenderRejectsOutside ==
  [][(last'.op = "render" /\ renderer.game /\ renderer.worldW # 0
        /\ renderer.worldH # 0 /\ OutsideWorld(renderer)) =>
       /\ last'.threw
       /\ renderer'.tilesDirty = renderer.tilesDirty
       /\ renderer'.blocksDirty = renderer.blocksDirty
       /\ renderer'.tiles = renderer.tiles]_vars

\* The squares of the canvas asked about, by column and row.
AtlasSquares ==
  (0..(query.canvas.width \div AtlasSq - 1)) \X (0..(query.canvas.height \div AtlasSq - 1))

\* Every pixel of square c of the canvas has alpha 0.
Transparent(c) ==
  \A p \in (0..(AtlasSq - 1)) \X (0..(AtlasSq - 1)) :
    query.canvas.alpha[(c[2] * AtlasSq + p[2]) * query.canvas.width
                         + c[1] * AtlasSq + p[1]] = 0

\* C17: building the index fails when the width or the height of the atlas
\* is no multiple of the square size; else it gives 4 integers per square,
\* (0, 0, 0, 0) for a square that is fully transparent.
AtlasIndexBuilt ==
  query.done =>
    IF query.canvas.width % AtlasSq # 0 \/ query.canvas.height % AtlasSq # 0
      THEN query.failed
      ELSE /\ ~query.failed
           /\ Len(query.index) = 4 * Cardinality(AtlasSquares)
           /\ \A c \in AtlasSquares :
                LET n == c[2] * (query.canvas.width \div AtlasSq) + c[1]
                IN  Transparent(c) =>
                      SubSeq(query.index, 4 * n + 1, 4 * n + 4) = <<0, 0, 0, 0>>

\* C18: a transition queued against a blend map without index gets the box
\* (0, 0, 32, 32); one queued against a blend map with an index gets the 4
\* integers the index holds for its square.
TransitionBox ==
  query.queued # << >> =>
    SubSeq(query.queued[1], 4, 7) =
      (IF query.seen = << >> THEN <<0, 0, 32, 32>>
       ELSE SubSeq(query.seen, 4 * query.idx + 1, 4 * query.idx + 4))

\* C18 witness: a transition was queued for the second square of an indexed
\* blend map and its box is not the full tile.
TransitionBoxWitness ==
  /\ query.queued # << >> /\ query.seen # << >> /\ query.idx = 1
  /\ SubSeq(query.queued[1], 4, 7) # <<0, 0, 32, 32>>

\* The listeners of the renderer registered for an event of the game.
RendererListeners(e) ==
  {i \in 1..Len(game.handlers[e]) : game.handlers[e][i].who = "renderer"}

RendererEvents ==
  {"mapResize", "invalidateAll", "invalidateTile", "invalidateRect"}

\* C19: after setRenderer each of the four events has the renderer's handler
\* once; resetRenderer ends without error, leaves none of the four
\* registered, and the renderer without grid, tiles, blocks and bitsets.
AttachDetach ==
  /\ last.op = "setRenderer" =>
        \A e \in RendererEvents : Cardinality(RendererListeners(e)) = 1
  /\ last.op = "resetRenderer" =>
        /\ ~last.threw
        /\ \A e \in RendererEvents : RendererListeners(e) = {}
        /\ renderer.gridW = 0 /\ renderer.gridH = 0
        /\ renderer.tiles = NoTiles /\ renderer.pixels = NoPixels
        /\ renderer.tilesDirty = NullBits /\ renderer.blocksDirty = NullBits

(***************************************************************************)
(* Claims about the cache under edits, resizes and render() (Spec), and    *)
(* about the invalidation calls of the game layer (SpecGame).              *)
(***************************************************************************)

\* The renderer is attached to the game and has a grid.
HasGrid ==
  renderer.game /\ renderer.tilesDirty # NullBits

\* The tiles of the map that lie in cell c.
TilesOfCell(c) ==
  {t \in (0..(game.w - 1)) \X (0..(game.h - 1)) : CellOf(t, renderer.gridW) = c}

\* The RendererTile a recomputation from the current map gives tile t.
FromScratch(t) ==
  updateMapTile(game, renderer.playerId, t[1], t[2], t[2] * game.w + t[1])

\* Cell c is clean in both bitsets.
Clean(c) ==
  ~TestBit(renderer.tilesDirty, c) /\ ~TestBit(renderer.blocksDirty, c)

\* The RendererTile of tile t and what the block canvas holds for it are
\* the ones a recomputation from the current map gives.
Fresh(t) ==
  LET i == t[2] * game.w + t[1]
  IN  /\ i \in DOMAIN renderer.tiles
      /\ renderer.tiles[i] = FromScratch(t)
      /\ renderer.pixels[CellOf(t, renderer.gridW)][<<t[1] % kGridSize, t[2] % kGridSize>>]
           = drawTile(game.tiles[i], FromScratch(t))

\* The last operation created the grid: the renderer has one now and had
\* none, or one of other dimensions, before.
GridCreated ==
  /\ last.op \in {"setRenderer", "createMap"} /\ ~last.threw
  /\ HasGrid
  /\ \/ last.pre.tilesDirty = NullBits
     \/ (last.pre.w + kGridSize - 1) \div kGridSize # renderer.gridW
     \/ (last.pre.h + kGridSize - 1) \div kGridSize # renderer.gridH

\* C20: when the grid is created both bitsets are ceil(gridW * gridH / 32)
\* words long and hold the bit of every coarse cell.
NewGridAllDirty ==
  GridCreated =>
    /\ renderer.tilesDirty.len = (renderer.gridW * renderer.gridH + 31) \div 32
    /\ renderer.blocksDirty.len = (renderer.gridW * renderer.gridH + 31) \div 32
    /\ \A c \in 0..(renderer.gridW * renderer.gridH - 1) :
         TestBit(renderer.tilesDirty, c) /\ TestBit(renderer.blocksDirty, c)

\* C20 witness: a grid of 33 cells, which needs a second word, was created.
NewGridAllDirtyWitness ==
  GridCreated /\ renderer.gridW * renderer.gridH > 32

\* C1: in every state reached by tile edits, invalidations and render(),
\* every tile of a cell that is clean in both bitsets has the RendererTile
\* data and the block content a recomputation from the current map gives.
CacheCoherent ==
  HasGrid => \A c \in GridCells : Clean(c) => \A t \in TilesOfCell(c) : Fresh(t)

\* C7: after setTileId changed tile (x, y), the cells that overlap the
\* wrapped 3x3 region around (x, y) are dirty in both bitsets, and no other
\* cell has a bit changed.
SingleTileExact ==
  (/\ last.op = "setTileId" /\ ~last.threw
   /\ last.changedTiles # {}
   /\ HasGrid)
  => \A c \in GridCells :
       IF c \in ExpandedCells(last.args[1], last.args[2], 1, 1)
         THEN Dirty(c)
         ELSE /\ TestBit(renderer.tilesDirty, c) = TestBit(last.pre.tilesDirty, c)
              /\ TestBit(renderer.blocksDirty, c) = TestBit(last.pre.blocksDirty, c)

\* C8: after the map changed its width or height under an attached
\* renderer, every cell is dirty in both bitsets and the renderer holds one
\* RendererTile per map tile.
ResizeRebuilds ==
  (/\ last.op = "createMap" /\ ~last.threw
   /\ renderer.game
   /\ last.pre.w # game.w \/ last.pre.h # game.h)
  => /\ renderer.tilesDirty # NullBits
     /\ \A c \in GridCells : Dirty(c)
     /\ DOMAIN renderer.tiles = 0..(game.w * game.h - 1)

\* The tiles of the rectangle of a recorded renderer call, wrapped modulo
\* the map size: invalidateRect(x, y, w, h) names its rectangle, and
\* invalidateTile and invalidateAll go through invalidateRect.
CallTiles(call) ==
  IF call[1] = "invalidateRect"
    THEN {((call[3] + j) % game.h) * game.w + ((call[2] + i) % game.w) :
            i \in 0..(call[4] - 1), j \in 0..(call[5] - 1)}
    ELSE {}

\* The operations C9 lists.
TileDataOps ==
  {"setTileId", "setTileModifiers", "setTileIdAndModifiers",
   "moveUnit", "createCity", "uncoverTile"}

\* C9: an operation that changed the authoritative data of tiles, or the
\* fog of the viewing player, made an invalidation call on the attached
\* renderer whose rectangle holds every changed tile.
ChangesInvalidated ==
  (/\ last.op \in TileDataOps /\ ~last.threw
   /\ HasGrid)
  => \A i \in last.changedTiles \cup last.changedFog :
       \E call \in last.calls : i \in CallTiles(call)

\* The cells the viewport rectangle overlaps, scene pixel by scene pixel,
\* wrapped modulo the world size.
ViewportCells ==
  LET gxs == {((renderer.worldX + sx) % renderer.worldW) \div gridPixels :
                sx \in 0..(renderer.sceneW - 1)}
      gys == {((renderer.worldY + sy) % renderer.worldH) \div gridPixels :
                sy \in 0..(renderer.sceneH - 1)}
  IN  {gy * renderer.gridW + gx : gx \in gxs, gy \in gys}

\* C21: after render() returned normally every cell the viewport overlaps
\* is clean in both bitsets, and every cell whose bits the call cleared has
\* all its tiles recomputed and its block region recomposited from them.
RenderCleansViewport ==
  (/\ last.op = "render" /\ ~last.threw
   /\ HasGrid /\ renderer.worldW # 0 /\ renderer.worldH # 0)
  => /\ \A c \in ViewportCells : Clean(c)
     /\ \A c \in GridCells :
          (WasDirty(c) /\ Clean(c)) => \A t \in TilesOfCell(c) : Fresh(t)

(***************************************************************************)
(* Claims about the data $updateMapTile computes for one tile.              *)
(***************************************************************************)

\* The tile at (x, y) of a map that wraps around.
TileAt(x, y) ==
  game.tiles[((y + game.h) % game.h) * game.w + ((x + game.w) % game.w)]

\* The tile that was recomputed.
QueryTile ==
  TileAt(query.x, query.y)

\* The mask with the bit of each neighbour of the recomputed tile that
\* satisfies P.
MaskWhere(P(_)) ==
  SumOf({EdgeAt(d[1], d[2]) :
           d \in {e \in NeighborOffsets : P(TileAt(query.x + e[1], query.y + e[2]))}})

\* The mask of the neighbours whose terrain has rank r.
RankMask(r) ==
  MaskWhere(LAMBDA t : dominanceById[t.id] = r)

\* The recomputed tile is ocean and has a neighbour that is not.
Coastal ==
  /\ QueryTile.id = TerrainOcean
  /\ MaskWhere(LAMBDA t : t.id # TerrainOcean) # 0

\* The transitions queued for the recomputed tile, the two of the coast
\* left out.
DominanceQueued ==
  SelectSeq(query.tile.transitions,
            LAMBDA e : e[2] \notin {AssetBlendMapCoast, AssetBlendMapCoastLine})

\* The queued dominance transitions are one per rank above `from` that a
\* neighbour has, in ascending rank order, each with the texture and the
\* blend map of its rank and the terrain-table entry of its rank's mask.
DominanceIs(from) ==
  LET R == {r \in (from + 1)..8 : RankMask(r) # 0}
      q == DominanceQueued
  IN  /\ Len(q) = Cardinality(R)
      /\ \A k \in 1..Len(q) :
           LET r == CHOOSE c \in R : Cardinality({b \in R : b < c}) = k - 1
           IN  /\ q[k][1] = textureByDominance[r]
               /\ q[k][2] = blendmapByDominance[r]
               /\ q[k][3] = 32 * TerrainTransitions.LUT[RankMask(r)]

\* C22 as stated: the dominance transitions of every tile are those of the
\* ranks above the rank of the tile's own terrain.
DominanceFromOwnRank ==
  query.done => DominanceIs(dominanceById[QueryTile.id])

\* C22: the dominance transitions of a tile are, in ascending order, those
\* of the ranks a neighbour has above the rank of the tile's own terrain,
\* and for an ocean tile on a coast above the rank of the desert.
DominanceFromBaseRank ==
  query.done =>
    DominanceIs(IF Coastal THEN dominanceById[TerrainDesert]
                ELSE dominanceById[QueryTile.id])

\* C22 witness: an ocean tile on a coast with a desert neighbour and two
\* dominance transitions has been recomputed.
DominanceFromBaseRankWitness ==
  /\ query.done
  /\ Coastal
  /\ RankMask(dominanceById[TerrainDesert]) # 0
  /\ Len(DominanceQueued) >= 2

\* The recomputed tile has the texture of terrain id as its base layer and
\* the rank of terrain id as the rank its neighbours are compared against.
BaseIs(id) ==
  /\ query.tile.baseTexture = TerrainAssetId[id]
  /\ DominanceIs(dominanceById[id])

\* C23 as stated: every recomputed tile, an ocean tile on a coast too, has
\* the texture of its own terrain as base texture and its own rank compared
\* against the neighbours.
BaseIsOwnTerrain ==
  query.done => BaseIs(QueryTile.id)

\* C23: a recomputed tile has the texture and the rank of its own terrain,
\* except an ocean tile on a coast, which has those of the desert.
BaseIsOwnOrDesert ==
  query.done => BaseIs(IF Coastal THEN TerrainDesert ELSE QueryTile.id)

\* C23 witness: an ocean tile on a coast has been recomputed and has the
\* desert texture, which is not the ocean's, as base texture.
BaseIsOwnOrDesertWitness ==
  /\ query.done
  /\ Coastal
  /\ query.tile.baseTexture = TerrainAssetId[TerrainDesert]
  /\ query.tile.baseTexture # TerrainAssetId[TerrainOcean]

\* The transitions queued for the recomputed tile under one of the two
\* blend maps of the coast.
CoastQueued ==
  SelectSeq(query.tile.transitions,
            LAMBDA e : e[2] \in {AssetBlendMapCoast, AssetBlendMapCoastLine})

\* C24: an ocean tile with a neighbour that is not ocean has exactly two
\* coast transitions, the last two of its queue: the ocean texture under
\* the coast blend map, then the coast texture under the coast-line blend
\* map, both at the terrain-table entry of the complement of its terrain
\* edge mask; any other tile has none.
CoastTransitionsLast ==
  query.done =>
    LET q == query.tile.transitions
        n == Len(q)
        key == 32 * TerrainTransitions.LUT[
                 255 - MaskWhere(LAMBDA t : t.id = QueryTile.id)]
    IN  IF Coastal
          THEN /\ Len(CoastQueued) = 2
               /\ n >= 2
               /\ SubSeq(q[n - 1], 1, 3) = <<AssetTextureOcean, AssetBlendMapCoast, key>>
               /\ SubSeq(q[n], 1, 3) = <<AssetTextureCoast, AssetBlendMapCoastLine, key>>
          ELSE Len(CoastQueued) = 0

\* C24 witness: an ocean tile on a coast has been recomputed with dominance
\* transitions queued before the two of the coast.
CoastTransitionsLastWitness ==
  /\ query.done
  /\ Coastal
  /\ Len(DominanceQueued) >= 1
  /\ Len(query.tile.transitions) = Len(DominanceQueued) + 2

\* The viewing player has uncovered the tile at (x, y) of the wrapping map.
SeenAt(x, y) ==
  TestBit(game.players[renderer.playerId + 1].uncovered,
          ((y + game.h) % game.h) * game.w + ((x + game.w) % game.w))

\* C25: coverEdges of a recomputed tile is 256 exactly when a viewing
\* player is set who has not uncovered the tile; else it is 0 without a
\* viewing player and with one the mask of the neighbours (wrapped) that
\* player has not uncovered; it is 256 or in 0..255.
CoverMask ==
  query.done =>
    LET e == query.tile.coverEdges
        viewed == renderer.playerId # 0 - 1
    IN  /\ e \in 0..256
        /\ (e = 256) <=> (viewed /\ ~SeenAt(query.x, query.y))
        /\ (e # 256 /\ ~viewed) => e = 0
        /\ (e # 256 /\ viewed) =>
             e = SumOf({EdgeAt(d[1], d[2]) :
                          d \in {o \in NeighborOffsets :
                                   ~SeenAt(query.x + o[1], query.y + o[2])}})

\* C25 witness: a tile the viewing player has uncovered, with some
\* neighbours uncovered and some not, has been recomputed.
CoverMaskWitness ==
  /\ query.done
  /\ renderer.playerId # 0 - 1
  /\ SeenAt(query.x, query.y)
  /\ query.tile.coverEdges \notin {0, 255, 256}

\* The tile carries the river modifier.
HasRiver(t) ==
  BitAnd(t.modifiers, kRiver) # 0

\* C26: riverEdges of a recomputed tile has side bits only; for an ocean
\* tile the bits of the side neighbours with a river, for a land tile with
\* a river those of the side neighbours that have a river or are ocean,
\* and 0 for a land tile without river.
RiverMask ==
  query.done =>
    LET e == query.tile.riverEdges
        rivers == BitAnd(MaskWhere(HasRiver), EdgeSides)
        mouths == BitAnd(MaskWhere(LAMBDA t : HasRiver(t) \/ t.id = TerrainOcean),
                         EdgeSides)
    IN  /\ BitAnd(e, EdgeCorners) = 0
        /\ e \in 0..15
        /\ e = (IF QueryTile.id = TerrainOcean THEN rivers
                ELSE IF HasRiver(QueryTile) THEN mouths
                ELSE 0)

\* C26 witness: a land tile with a river whose mask has a bit for an ocean
\* neighbour without river has been recomputed.
RiverMaskWitness ==
  /\ query.done
  /\ QueryTile.id # TerrainOcean
  /\ HasRiver(QueryTile)
  /\ query.tile.riverEdges # BitAnd(MaskWhere(HasRiver), EdgeSides)

\* The tile carries the road modifier, the railroad modifier.
HasRoad(t) ==
  BitAnd(t.modifiers, kRoad) # 0

HasRailroad(t) ==
  BitAnd(t.modifiers, kRailroad) # 0

\* C27: roadEdges of a recomputed tile is a 16-bit value: the low byte is
\* the mask of the neighbours with a road when the tile has a road and 0
\* when it has none, the high byte the mask of the neighbours with a
\* railroad when the tile has a railroad and 0 when it has none.
RoadMask ==
  query.done =>
    LET e == query.tile.roadEdges
    IN  /\ e \in 0..65535
        /\ e % 256 = (IF HasRoad(QueryTile) THEN MaskWhere(HasRoad) ELSE 0)
        /\ e \div 256 = (IF HasRailroad(QueryTile) THEN MaskWhere(HasRailroad) ELSE 0)
        /\ (~HasRoad(QueryTile) /\ ~HasRailroad(QueryTile)) => e = 0

\* C27 witness: a tile with a road and no railroad, next to a tile with a
\* railroad and to a tile with a road, has been recomputed.
RoadMaskWitness ==
  /\ query.done
  /\ HasRoad(QueryTile) /\ ~HasRailroad(QueryTile)
  /\ MaskWhere(HasRailroad) # 0
  /\ query.tile.roadEdges % 256 # 0

\* Flag f is set in mask e.
HasFlag(e, f) ==
  BitAnd(e, f) # 0

\* The two sides next to a corner.
SidesNextTo(corner) ==
  CASE corner = EdgeTopLeft     -> {EdgeTop, EdgeLeft}
    [] corner = EdgeTopRight    -> {EdgeTop, EdgeRight}
    [] corner = EdgeBottomLeft  -> {EdgeBottom, EdgeLeft}
    [] corner = EdgeBottomRight -> {EdgeBottom, EdgeRight}

\* The directions (bit numbers) of the sprites drawn from row `row`.
DrawnDirections(row) ==
  {i \in 0..7 : \E k \in DOMAIN query.draws :
                  query.draws[k] = Draw("road", RoadIndex[i + 1] * tileSize, row)}

\* C28: simplifyRoadEdges keeps every side bit of an 8-bit mask, keeps a
\* corner bit unless the corner and its two sides are all set, and then
\* clears it; applied again it changes nothing; and a road sprite is drawn
\* only for a direction without railroad connection.
RoadsSimplified ==
  query.done =>
    LET e == query.roadEdges % 256
        rail == query.roadEdges \div 256
        s == query.simplified
    IN  /\ s \in 0..255
        /\ \A f \in SideEdges : HasFlag(s, f) = HasFlag(e, f)
        /\ \A c \in AllEdges \ SideEdges :
             HasFlag(s, c) = (HasFlag(e, c) /\ ~(\A f \in SidesNextTo(c) : HasFlag(e, f)))
        /\ query.again = s
        /\ \A i \in DrawnDirections(32) : ~HasFlag(rail, 2 ^ i) /\ HasFlag(e, 2 ^ i)

\* C28 witness: a tile with roads to a corner and its two sides, one side
\* under a railroad connection, has been drawn with road sprites.
RoadsSimplifiedWitness ==
  /\ query.done
  /\ query.simplified # query.roadEdges % 256
  /\ query.roadEdges \div 256 \notin {0, 255}
  /\ BitAnd(query.roadEdges % 256, query.roadEdges \div 256) # 0
  /\ DrawnDirections(32) # {}

(***************************************************************************)
(* Claims about the order of the drawing calls of one render().             *)
(***************************************************************************)

\* The place of a pass in $renderMapArea.
PassRank(pass) ==
  CASE pass = "terrain" -> 0
    [] pass = "objects" -> 1
    [] pass = "debug"   -> 2

\* The place of a sprite among those of one tile.
TileRank(kind) ==
  CASE kind = "cover"       -> 0
    [] kind = "irrigation"  -> 1
    [] kind = "road"        -> 2
    [] kind = "resource"    -> 3
    [] kind = "city"        -> 4
    [] kind = "defended"    -> 5
    [] kind = "labelStroke" -> 6
    [] kind = "labelFill"   -> 7
    [] kind = "unit"        -> 4
    [] kind = "ghost"       -> 5
    [] kind = "coverEdges"  -> 8
    [] kind = "territory"   -> 9
    [] OTHER                -> 10

\* The kinds of the sprites the object pass drew at the place of entry i.
KindsAt(i) ==
  {query.log[j].kind : j \in {k \in DOMAIN query.log :
                                /\ query.log[k].pass = "objects"
                                /\ query.log[k].dx = query.log[i].dx
                                /\ query.log[k].dy = query.log[i].dy}}

\* C29: in the drawing calls of one render() the block blits come before
\* every sprite of a tile; the sprites of one tile come in the order
\* irrigation, roads and railroads, resource, city (its label stroked, then
\* filled) or unit (then the ghost of a stack), cover edges, territory; and
\* the debug overlay comes last, and only when Renderer.debug is not 0.
DrawOrder ==
  (query.done /\ ~query.threw) =>
    LET log == query.log
    IN  /\ \A i \in DOMAIN log, j \in DOMAIN log :
             i < j =>
               /\ PassRank(log[i].pass) <= PassRank(log[j].pass)
               /\ (/\ log[i].pass = "objects" /\ log[j].pass = "objects"
                   /\ log[i].dx = log[j].dx /\ log[i].dy = log[j].dy)
                  => \/ TileRank(log[i].kind) < TileRank(log[j].kind)
                     \/ log[i].kind = "road" /\ log[j].kind = "road"
        /\ (\E i \in DOMAIN log : log[i].pass = "debug") => query.debug # 0
        /\ \A i \in DOMAIN log : log[i].pass = "terrain" <=> log[i].kind = "block"

\* C29 witness: a render() with the debug overlay on has blitted a block
\* and drawn a defended city on a road with a resource, a stack of units,
\* an irrigated tile, cover edges and a territory edge.
DrawOrderWitness ==
  /\ query.done /\ ~query.threw
  /\ query.debug # 0
  /\ \E i \in DOMAIN query.log : query.log[i].pass = "debug"
  /\ \E i \in DOMAIN query.log : query.log[i].kind = "block"
  /\ \E i \in DOMAIN query.log :
       {"road", "resource", "city", "defended", "labelStroke", "labelFill"}
         \subseteq KindsAt(i)
  /\ \E i \in DOMAIN query.log : {"unit", "ghost"} \subseteq KindsAt(i)
  /\ \E i \in DOMAIN query.log : "irrigation" \in KindsAt(i)
  /\ \E i \in DOMAIN query.log : "coverEdges" \in KindsAt(i)
  /\ \E i \in DOMAIN query.log : "territory" \in KindsAt(i)

(***************************************************************************)
(* Claims about the block pool.                                            *)
(***************************************************************************)

\* The blocks the grid of a map w wide and h high needs: one per 16 cells.
BlocksFor(w, h) ==
  (((w + kGridSize - 1) \div kGridSize) * ((h + kGridSize - 1) \div kGridSize) + 15)
    \div 16

\* C30: the pool holds ceil(gridW * gridH / 16) canvases after every step,
\* and a step that leaves a pool keeps, at each index below the old and the
\* new length, the canvas that was there.
BlockPoolReused ==
  [][/\ Len(renderer'.blocks) = (renderer'.gridW * renderer'.gridH + 15) \div 16
     /\ \A k \in DOMAIN renderer.blocks \cap DOMAIN renderer'.blocks :
          renderer'.blocks[k] = renderer.blocks[k]]_vars

\* C30 witness: createMap has replaced a map under the attached renderer by
\* one whose grid needs another number of blocks, more than one.
BlockPoolReusedWitness ==
  /\ last.op = "createMap" /\ ~last.threw
  /\ renderer.game
  /\ last.pre.w # 0 /\ last.pre.h # 0
  /\ BlocksFor(last.pre.w, last.pre.h) # BlocksFor(game.w, game.h)
  /\ Len(renderer.blocks) = BlocksFor(game.w, game.h)
  /\ Len(renderer.blocks) > 1

\* The grid entry of cell c.
EntryOf(c) ==
  renderer.grid[c + 1]

\* C31: while the renderer has a grid, every cell has an entry whose block
\* is in the pool and whose 8x8-tile region lies inside the 32x32-tile
\* block, and no two cells have regions of one block that overlap.
CellsHaveOwnRegion ==
  (renderer.tilesDirty # NullBits) =>
    LET cells == 0..(renderer.gridW * renderer.gridH - 1)
        gridSq == kGridSize * tileSize
        blockSq == kBlockSize * tileSize
        apart(a, b) == a + gridSq <= b \/ b + gridSq <= a
    IN  /\ Len(renderer.grid) = renderer.gridW * renderer.gridH
        /\ \A c \in cells :
             /\ EntryOf(c).blockIndex \in 0..(Len(renderer.blocks) - 1)
             /\ EntryOf(c).blockX >= 0 /\ EntryOf(c).blockX + gridSq <= blockSq
             /\ EntryOf(c).blockY >= 0 /\ EntryOf(c).blockY + gridSq <= blockSq
        /\ \A c \in cells, d \in cells :
             (c # d /\ EntryOf(c).blockIndex = EntryOf(d).blockIndex) =>
               \/ apart(EntryOf(c).blockX, EntryOf(d).blockX)
               \/ apart(EntryOf(c).blockY, EntryOf(d).blockY)

\* C31 witness: a grid of 33 cells has been created, whose cells fill two
\* blocks and start a third.
CellsHaveOwnRegionWitness ==
  /\ renderer.tilesDirty # NullBits
  /\ renderer.gridW * renderer.gridH = 33
  /\ Len(renderer.grid) = 33
  /\ EntryOf(32).blockIndex = 2
  /\ EntryOf(15).blockIndex = 0 /\ EntryOf(15).blockX # 0 /\ EntryOf(15).blockY # 0

\* The $updateMapTile calls of the last operation, each <<"updateMapTile",
\* tx, ty, tileIndex>>.
TileCalls ==
  {c \in last.calls : c[1] = "updateMapTile"}

\* C32: render() calls $updateMapTile with the GameTile and RendererTile at
\* index ty * W + tx, once per tile, and for every cell whose tile bit it
\* cleared on each tile of the cell that is on the map.
TilesAddressed ==
  (/\ last.op = "render" /\ ~last.threw
   /\ renderer.tilesDirty # NullBits)
  => /\ \A c \in TileCalls : c[4] = c[3] * game.w + c[2]
     /\ \A c \in TileCalls, d \in TileCalls : (c[2] = d[2] /\ c[3] = d[3]) => c = d
     /\ \A cell \in 0..(renderer.gridW * renderer.gridH - 1) :
          (TestBit(last.pre.tilesDirty, cell) /\ ~TestBit(renderer.tilesDirty, cell))
            => \A tx \in 0..(game.w - 1), ty \in 0..(game.h - 1) :
                 (tx \div kGridSize = cell % renderer.gridW
                    /\ ty \div kGridSize = cell \div renderer.gridW)
                   => \E c \in TileCalls : c[2] = tx /\ c[3] = ty

\* C33: the tile-dirty and the block-dirty bitsets are equal in every state
\* reached by attaching, resizing the map, invalidating and rendering.
DirtyBitsetsEqual ==
  renderer.tilesDirty = renderer.blocksDirty

\* A render() has cleaned some cells and left others dirty.
DirtyBitsetsEqualWitness ==
  /\ last.op = "render" /\ ~last.threw
  /\ renderer.tilesDirty # last.pre.tilesDirty
  /\ renderer.tilesDirty.bits # {}
  /\ renderer.tilesDirty = renderer.blocksDirty

\* C34: in both tables, a raw mask that has a LUT entry is sent to the slot
\* of PRE that holds its sides with the corners that matter beside them;
\* PRE holds no value twice; and LUT[PRE[i]] = i for every index i of PRE.
CanonicalForm ==
  query.done
  => /\ query.i1 >= 0
          => query.pre1 = BitOr(sideBits(query.r1),
                                BitAnd(cornerBits(query.r1),
                                       effective(query.style, sideBits(query.r1))))
     /\ query.preK1 = query.preK2 => query.k1 = query.k2
     /\ query.lutK1 = query.k1

\* A raw mask with corners that do not matter takes the slot of another
\* value, and two raw masks select the first and the last index of PRE.
CanonicalFormWitness ==
  /\ query.done
  /\ query.i1 >= 0 /\ query.pre1 # query.r1
  /\ query.pre1 = BitOr(sideBits(query.r1),
                        BitAnd(cornerBits(query.r1),
                               effective(query.style, sideBits(query.r1))))
  /\ query.k1 = query.n - 1 /\ query.k2 = 0
  /\ query.lutK1 = query.k1 /\ query.preK1 # query.preK2

(***************************************************************************)
(* Claims about frame scheduling (SpecFrame, SpecFrameLive).               *)
(***************************************************************************)

\* C35: at most one frame callback of CivUI is outstanding, and
\* animationFramePending is true exactly while one is.
OneFramePending ==
  /\ ui.frames <= 1
  /\ ui.animationFramePending <=> (ui.frames = 1)

\* makeDirty() is called while a frame requested by the frame callback is
\* outstanding: the flag is set and no second frame is requested.
OneFramePendingWitness ==
  /\ last.op = "makeDirty"
  /\ ui.dirty /\ ui.animationFramePending /\ ui.frames = 1
  /\ last.cleanFrames = 0
  /\ ui.renderer /\ renderer.tilesDirty # NullBits

\* The state a makeDirty() call leaves while the ui has a renderer.
DirtyWithRenderer ==
  ui.dirty /\ ui.renderer

\* A frame callback has called renderer.render().
FrameRendered ==
  last.op = "onRender" /\ <<"render">> \in last.calls

\* C36: every makeDirty() made while a renderer is attached is followed by
\* a frame callback that calls renderer.render(); and a frame callback that
\* found the dirty flag clear requests no further frame, so that at most
\* one such frame runs after the last makeDirty().
FramesServeDirty ==
  /\ DirtyWithRenderer ~> FrameRendered
  /\ [](last.cleanFrames >= 1
          => (last.cleanFrames = 1 /\ ui.frames = 0 /\ ~ui.animationFramePending))

\* The extra frame has run after a frame that rendered a map: nothing is
\* pending any more.
FramesServeDirtyWitness ==
  /\ last.op = "onRender" /\ last.cleanFrames = 1
  /\ ui.renderer /\ renderer.tilesDirty # NullBits
  /\ ui.frames = 0 /\ ~ui.dirty

(***************************************************************************)
(* Claims about the units of a tile (SpecUnits).                           *)
(***************************************************************************)

\* The unit objects that are live: made and not destroyed.
LiveUnits ==
  {u \in DOMAIN query.objs : ~query.objs[u].deleted}

\* How often a unit is in a list.
TimesIn(list, u) ==
  Cardinality({k \in DOMAIN list : list[k] = u})

\* A list without one unit.
Without(list, u) ==
  SelectSeq(list, LAMBDA v : v # u)

\* The last operation took its unit off the tile it stood on.
UnitRemoved ==
  /\ query.op \in {"moveUnit", "destroyUnit"}
  /\ ~query.threw
  /\ \/ query.op = "destroyUnit"
     \/ TileOfUnit(query.unit) # query.from

\* The last operation had to take its unit off a tile.
RemovalAsked ==
  \/ query.op = "destroyUnit"
  \/ query.op = "moveUnit" /\ (query.threw \/ TileOfUnit(query.unit) # query.from)

\* C37: every live unit is exactly once in the list of the tile it stands
\* on and in no other list; a removal keeps the order of the other units
\* of the tile; and removing a unit that is not in the list of its tile
\* raises an error.
UnitsOccupyTiles ==
  /\ \A u \in LiveUnits, i \in DOMAIN query.heads :
       TimesIn(listsOf(query)[i], u) = (IF i = TileOfUnit(u) THEN 1 ELSE 0)
  /\ UnitRemoved
       => listsOf(query)[query.from] = Without(query.was[query.from], query.unit)
  /\ (RemovalAsked /\ TimesIn(query.was[query.from], query.unit) = 0)
       => query.threw

\* A unit has left the middle of a list of three and the other two are in
\* their order.
UnitsOccupyTilesWitness ==
  /\ UnitRemoved
  /\ Len(query.was[query.from]) = 3
  /\ query.was[query.from][2] = query.unit
  /\ listsOf(query)[query.from] = <<query.was[query.from][1], query.was[query.from][3]>>

\* A destroyed unit is destroyed or moved again, and the call raises.
RemovalRaisesWitness ==
  /\ RemovalAsked /\ query.threw
  /\ query.objs[query.unit].deleted
  /\ LiveUnits # {}

(***************************************************************************)
(* Claims about the loading queue (SpecAssets).                            *)
(***************************************************************************)

\* How often an event is in the events the last operation emitted.
Emitted(name) ==
  Cardinality({k \in DOMAIN query.emitted : query.emitted[k] = name})

\* isRunning() is true exactly while a file is queued, and queuedCount is
\* the number of queued files.
QueueCounted ==
  /\ query.running <=> (query.queued # {})
  /\ query.queuedCount = Cardinality(query.queued)

\* "start" is emitted when the first file is queued while the store is
\* idle, and "complete" once each time the queue becomes empty.
QueueAnnounced ==
  /\ Emitted("start") = (IF ~query.wasRunning /\ query.queued # {} /\ query.op = "add"
                           THEN 1 ELSE 0)
  /\ Emitted("complete") = (IF query.wasQueued # {} /\ query.queued = {}
                              THEN 1 ELSE 0)

\* No file is fetched twice.
FetchedOnce ==
  \A file \in AssetFiles : query.fetches[file] <= 1

\* C38: the running flag and queuedCount follow the queue, a file
\* referenced by several assets is fetched once, and "start" and
\* "complete" are emitted as the queue fills and empties.
AssetQueue ==
  QueueCounted /\ FetchedOnce /\ QueueAnnounced

\* The queue has emptied by a load that served two assets of one file.
QueueCountedWitness ==
  /\ query.op = "load" /\ query.queued = {} /\ ~query.running
  /\ Emitted("asset") = 2 /\ Emitted("complete") = 1
  /\ QueueCounted /\ QueueAnnounced

\* C39: setting Renderer.playerId to another value marks every coarse cell
\* dirty in both bitsets, in every state of the renderer, the states
\* before a game is attached included; setting it to the value it has
\* changes nothing.
PlayerChangeInvalidates ==
  last.op = "setPlayerId"
  => IF last.args[1] # last.pre.playerId
       THEN /\ ~last.threw
            /\ \A c \in 0..(renderer.gridW * renderer.gridH - 1) :
                 TestBit(renderer.tilesDirty, c) /\ TestBit(renderer.blocksDirty, c)
       ELSE /\ ~last.threw
            /\ last.calls = {}
            /\ renderer.tilesDirty = last.pre.tilesDirty
            /\ renderer.blocksDirty = last.pre.blocksDirty

=============================================================================
